---- MODULE Spec2Model ----
(***************************************************************************)
(* geo-ip-generator: the fixed-window rate limiter, the cache-aside        *)
(* wrapper, the cache keys and clearPrefix, the data loader, the address   *)
(* codecs, the range samplers, the territory lookups and the generation    *)
(* routes, as state machines translated from the TypeScript sources.       *)
(*                                                                         *)
(* Four groups of variables; each specification moves the variables of one *)
(* component and leaves the others at their initial values.                *)
(***************************************************************************)
EXTENDS Integers, Sequences, FiniteSets, TLC

VARIABLES
    nodeEnv,      \* process.env.NODE_ENV
    redis,        \* CacheManager.redis: "client" or "null"
    isEnabled,    \* CacheManager.isEnabled
    rl,           \* the store's rate-limit keys: key -> [count, ttl]; count 0 = absent, ttl -1 = no expiry
    traffic,      \* the (client, endpoint) pairs this behaviour sends requests for
    req,          \* one record per request task passing through withRateLimit
    last,         \* the check decided most recently
    resp,         \* the response sent most recently
    began,        \* history: checks begun on a key since its counter was last absent
    allowedW,     \* history: of those, the checks answered Allow
    faulted,      \* history: a store failure or a disabled check touched the key's window
    everReset,    \* history: an exceeded counter has expired
    slide,        \* history: requests allowed per key in this and in the previous TickSeconds
    failuresLeft, \* store and connection failures the environment may still produce
    raced,        \* history: a check of the window began while another was undecided
    cstore,       \* the store's cache keys: key -> [present, text, ttl]
    storeDown,    \* the store raises an error on every command
    calls,        \* one record per withCache call in progress
    lastCall,     \* the withCache call that returned most recently
    workload,     \* the withCache call sites and producer results this behaviour exercises
    keyspace,     \* the store's keys as texts, and the last clearPrefix: category, keys before
    load,         \* loadGeoIpData: the sources' answers, the in-process copy and the load in progress
    v4,           \* an IPv4 conversion in progress: integer, text and the results
    v6,           \* an IPv6 conversion in progress: integer, text and the results
    smp4,         \* a call of generateRandomIpInRange: the range and the address returned
    gen6,         \* an IPv6 generation in progress: the ranges, the draws and the items
    rsv,          \* a territory lookup: the resolver, the dataset, the query and the result
    api           \* the generation routes: the cache, the request in progress and the last response

rlVars == <<nodeEnv, redis, isEnabled, rl, traffic, req, last, resp, began, allowedW,
           faulted, everReset, slide,
           failuresLeft, raced>>

\* The rate limiter's variables the cache wrapper does not read.
rlOnly == <<nodeEnv, rl, traffic, req, last, resp, began, allowedW, faulted, everReset, slide,
           raced>>

cacheVars == <<cstore, storeDown, calls, lastCall, workload, keyspace, load>>

codecVars == <<v4, v6>>

serviceVars == <<smp4, gen6, rsv, api>>

vars == <<rlVars, cacheVars, codecVars, serviceVars>>

(***************************************************************************)
(* Bounds of the model.                                                    *)
(***************************************************************************)
Over == 2          \* checks begun beyond the limit before traffic for a window stops
TickSeconds == 30  \* seconds one Tick of the store's clock advances
MaxFaults == 1     \* store and connection failures in one behaviour

Min(a, b) == IF a < b THEN a ELSE b
Max(a, b) == IF a > b THEN a ELSE b
CeilDiv(a, b) == (a + b - 1) \div b

(***************************************************************************)
(* src/config/cache.ts                                                     *)
(***************************************************************************)
CACHE_KEYS_RATE_LIMIT == "ratelimit"
CACHE_TTL_RATE_LIMIT == 60

RATE_LIMITS ==
    [e \in {"generate-ip", "generate-ipv6", "countries", "health", "default"} |->
        [requests |-> CASE e = "generate-ip" -> 10
                        [] e = "generate-ipv6" -> 10
                        [] e = "countries" -> 30
                        [] e = "health" -> 100
                        [] OTHER -> 20,
         windowMs |-> 60 * 1000,
         ttl |-> CACHE_TTL_RATE_LIMIT]]

\* RATE_LIMITS[endpointName] || RATE_LIMITS.default
RateConfig(endpointName) ==
    IF endpointName \in DOMAIN RATE_LIMITS THEN RATE_LIMITS[endpointName]
    ELSE RATE_LIMITS["default"]

\* Client keys and route names the model sends: a loopback client and a remote
\* one; a configured route and one that falls back to the default limit.
Clients == {"127.0.0.1", "203.0.113.7"}
Endpoints == {"generate-ip", "generate-ip-json"}

(***************************************************************************)
(* CacheManager (cache.ts)                                                 *)
(***************************************************************************)
getKey(prefix, identifier) == "ipregion:" \o prefix \o ":" \o identifier

\* One counter per endpoint, shared by every client.
RateKey_perEndpoint(ip, endpoint) == getKey(CACHE_KEYS_RATE_LIMIT, endpoint)

\* incrementRateLimit line 178: the key of a client on an endpoint.
RateKey(ip, endpoint) == getKey(CACHE_KEYS_RATE_LIMIT, ip \o ":" \o endpoint)

RateKeys == {RateKey(ip, e) : ip \in Clients, e \in Endpoints}

Absent == [count |-> 0, ttl |-> -1]

\* INCR sent twice for one check.
RedisIncr_twice(entry) == [entry EXCEPT !.count = @ + 2]

\* Redis INCR: one atomic command; a missing key counts from 0 and gets no expiry.
RedisIncr(entry) == [entry EXCEPT !.count = @ + 1]

\* A first hit written with SETEX key ttl 1 instead of EXPIRE: it overwrites the
\* count other requests have added since the increment.
RedisExpire_setex(entry, ttl) == [count |-> 1, ttl |-> ttl]

\* Redis EXPIRE key ttl: sets the expiry of an existing key, nothing otherwise.
RedisExpire(entry, ttl) == IF entry.count = 0 THEN entry ELSE [entry EXCEPT !.ttl = ttl]

\* A catch block that fails closed: it reports a count above every limit.
IncrementOnError_failClosed == RATE_LIMITS["health"].requests + 1

\* incrementRateLimit's catch block: "Fail open - allow request if Redis fails".
IncrementOnError == 0

(***************************************************************************)
(* rate-limit-middleware.ts                                                *)
(***************************************************************************)
\* lines 62-66: localhost is not limited in development.
DevBypass(env, clientIP) ==
    env = "development" /\ clientIP \in {"127.0.0.1", "::1", "localhost"}

\* The limit compared with >= : the request that reaches the limit is denied.
Decide_offByOne(currentCount, config) ==
    IF currentCount = 0 THEN [out |-> "allow", status |-> 0, retryAfter |-> 0]
    ELSE IF currentCount >= config.requests
         THEN [out |-> "deny", status |-> 429,
               retryAfter |-> CeilDiv(config.windowMs, 1000)]
         ELSE [out |-> "allow", status |-> 0, retryAfter |-> 0]

\* lines 74-103: the decision on the count incrementRateLimit returned.
Decide(currentCount, config) ==
    IF currentCount = 0 THEN [out |-> "allow", status |-> 0, retryAfter |-> 0]
    ELSE IF currentCount > config.requests
         THEN [out |-> "deny", status |-> 429,
               retryAfter |-> CeilDiv(config.windowMs, 1000)]
         ELSE [out |-> "allow", status |-> 0, retryAfter |-> 0]

\* The request tasks that may be in flight at once.
Reqs == {1, 2}

IdleReq == [pc |-> "idle", ip |-> "", ep |-> "", cur |-> 0, ord |-> 0,
            failed |-> FALSE, bypass |-> FALSE, stale |-> FALSE]

NoCheck == [ip |-> "", ep |-> "", ord |-> 0, cur |-> 0, out |-> "none",
            retryAfter |-> 0, failed |-> FALSE, bypass |-> FALSE]

NoResp == [ip |-> "", ep |-> "", status |-> 0, retryAfter |-> 0, remaining |-> 0,
           ran |-> 0, failed |-> FALSE]

KeyOf(r) == RateKey(req[r].ip, req[r].ep)

\* The route and the client a rate-limit key belongs to.
KeyEndpoint(k) == CHOOSE e \in Endpoints : \E ip \in Clients : RateKey(ip, e) = k
KeyClient(k) == CHOOSE ip \in Clients : \E e \in Endpoints : RateKey(ip, e) = k
Limit(k) == RateConfig(KeyEndpoint(k)).requests

\* A check of the key's current window that has incremented and not yet decided.
Undecided(k) == \E r \in Reqs : req[r].pc = "incr" /\ KeyOf(r) = k /\ ~req[r].stale

\* The history of allowed requests, kept only by the behaviours that start
\* with it on: per key, the requests allowed since the last Tick and in the
\* TickSeconds before it.
SlideOff == [on |-> FALSE, slot |-> [k \in RateKeys |-> 0], prev |-> [k \in RateKeys |-> 0]]
SlideOn == [SlideOff EXCEPT !.on = TRUE]

\* A request for key k passes to its handler.
Allowed(s, k) == IF s.on THEN [s EXCEPT !.slot[k] = @ + 1] ELSE s

\* TickSeconds pass.
Slid(s) == IF s.on THEN [s EXCEPT !.prev = s.slot, !.slot = [k \in RateKeys |-> 0]] ELSE s

\* A deployment with REDIS_URL set or not, before the first request.
InitRL ==
    /\ nodeEnv \in {"development", "production"}
    /\ \/ redis = "client" /\ isEnabled = TRUE      \* REDIS_URL given
       \/ redis = "null" /\ isEnabled = FALSE       \* no REDIS_URL
    /\ rl = [k \in RateKeys |-> Absent]
    /\ \E ip \in Clients, e \in Endpoints : traffic = {<<ip, e>>}
    /\ req = [r \in Reqs |-> IdleReq]
    /\ last = NoCheck
    /\ resp = NoResp
    /\ began = [k \in RateKeys |-> 0]
    /\ allowedW = [k \in RateKeys |-> 0]
    /\ faulted = [k \in RateKeys |-> FALSE]
    /\ everReset = FALSE
    /\ slide = SlideOff
    /\ raced = [k \in RateKeys |-> FALSE]

\* The outcomes of one store command: executed and answered, failed before it
\* ran, or ran and lost its answer (connection closed, timeout).
StoreOutcomes == IF failuresLeft > 0 THEN {"ok", "err", "lost"} ELSE {"ok"}

\* rateLimitMiddleware lines 74-103 and withRateLimit lines 121-126, for task r
\* (its record is rec) once incrementRateLimit has returned `current`: the check
\* is decided; a Deny goes out as the 429 response, an Allow passes to the handler.
Conclude(r, rec, current, threw) ==
    LET config == RateConfig(rec.ep)
        d == Decide(current, config)
    IN /\ last' = [ip |-> rec.ip, ep |-> rec.ep, ord |-> rec.ord, cur |-> current,
                   out |-> d.out, retryAfter |-> d.retryAfter, failed |-> threw,
                   bypass |-> FALSE]
       /\ IF d.out = "deny"
          THEN /\ req' = [req EXCEPT ![r] = IdleReq]
               /\ resp' = [ip |-> rec.ip, ep |-> rec.ep, status |-> d.status,
                           retryAfter |-> d.retryAfter,
                           remaining |-> Max(0, config.requests - current),
                           ran |-> 0, failed |-> threw]
          ELSE /\ req' = [req EXCEPT ![r] = [rec EXCEPT !.pc = "handler", !.cur = 0,
                               !.ord = 0, !.stale = FALSE, !.failed = threw]]
               /\ UNCHANGED resp

\* withRateLimit -> rateLimitMiddleware, lines 57-72, up to the store running
\* INCR (incrementRateLimit, cache.ts lines 172-179).
Begin(r) ==
    /\ req[r].pc = "idle"
    /\ \E t \in traffic :
        LET ip == t[1]
            ep == t[2]
            k == RateKey(ip, ep)
            config == RateConfig(ep)
            \* the ordinal of this check in the key's window (0: not tracked, the
            \* window has seen a store failure)
            n == IF faulted[k] THEN 0 ELSE began[k] + 1
            fresh == [IdleReq EXCEPT !.ip = ip, !.ep = ep, !.ord = n]
        IN  /\ began[k] < config.requests + Over
            /\ rl[k].count < config.requests + Over
            /\ raced' = [raced EXCEPT ![k] = @ \/ Undecided(k)]
            /\ IF DevBypass(nodeEnv, ip)
               THEN \* return null before any store command
                    /\ req' = [req EXCEPT ![r] = [fresh EXCEPT !.pc = "handler", !.ord = 0,
                                                               !.bypass = TRUE]]
                    /\ last' = [NoCheck EXCEPT !.ip = ip, !.ep = ep, !.ord = n,
                                               !.out = "allow", !.bypass = TRUE]
                    /\ began' = [began EXCEPT ![k] = n]
                    /\ allowedW' = [allowedW EXCEPT ![k] = IF faulted[k] THEN 0 ELSE @ + 1]
                    /\ UNCHANGED <<rl, resp, faulted, failuresLeft>>
               ELSE IF ~isEnabled \/ redis = "null"
               THEN \* incrementRateLimit returns 0: no rate limiting
                    /\ Conclude(r, [fresh EXCEPT !.ord = 0], 0, TRUE)
                    /\ faulted' = [faulted EXCEPT ![k] = TRUE]
                    /\ began' = [began EXCEPT ![k] = 0]
                    /\ allowedW' = [allowedW EXCEPT ![k] = 0]
                    /\ UNCHANGED <<rl, failuresLeft>>
               ELSE \E f \in StoreOutcomes :
                    /\ rl' = IF f = "err" THEN rl ELSE [rl EXCEPT ![k] = RedisIncr(@)]
                    /\ IF f = "ok"
                       THEN /\ req' = [req EXCEPT ![r] = [fresh EXCEPT !.pc = "incr",
                                           !.cur = rl'[k].count]]
                            /\ began' = [began EXCEPT ![k] = n]
                            /\ UNCHANGED <<last, resp, allowedW, faulted, failuresLeft>>
                       ELSE \* the catch block
                            /\ Conclude(r, [fresh EXCEPT !.ord = 0], IncrementOnError, TRUE)
                            /\ faulted' = [faulted EXCEPT ![k] = TRUE]
                            /\ began' = [began EXCEPT ![k] = 0]
                            /\ allowedW' = [allowedW EXCEPT ![k] = 0]
                            /\ failuresLeft' = failuresLeft - 1
    /\ slide' = IF req'[r].pc = "handler" THEN Allowed(slide, KeyOf(r)') ELSE slide
    /\ UNCHANGED <<nodeEnv, redis, isEnabled, traffic, everReset>>
    /\ UNCHANGED <<cacheVars, codecVars, serviceVars>>

\* incrementRateLimit after INCR answered (cache.ts lines 181-190), then the
\* middleware's decision.
AfterIncr(r) ==
    /\ req[r].pc = "incr"
    /\ LET k == KeyOf(r)
           config == RateConfig(req[r].ep)
       IN \E f \in (IF req[r].cur = 1 /\ redis # "null" THEN StoreOutcomes ELSE {"ok"}) :
          LET first == req[r].cur = 1
              \* this.redis.expire on a closed manager (redis = null) throws
              threw == first /\ (f # "ok" \/ redis = "null")
              expire == first /\ f # "err" /\ redis # "null"
              current == IF threw THEN IncrementOnError ELSE req[r].cur
              d == Decide(current, config)
              nowFaulted == faulted[k] \/ (threw /\ ~req[r].stale)
          IN /\ rl' = IF expire THEN [rl EXCEPT ![k] = RedisExpire(@, config.ttl)] ELSE rl
             /\ Conclude(r, req[r], current, threw)
             /\ faulted' = [faulted EXCEPT ![k] = nowFaulted]
             /\ began' = IF nowFaulted THEN [began EXCEPT ![k] = 0] ELSE began
             /\ allowedW' = IF nowFaulted THEN [allowedW EXCEPT ![k] = 0]
                            ELSE IF d.out = "allow" /\ ~req[r].stale
                            THEN [allowedW EXCEPT ![k] = @ + 1] ELSE allowedW
             /\ failuresLeft' = IF f = "ok" THEN failuresLeft ELSE failuresLeft - 1
    /\ slide' = IF req'[r].pc = "handler" THEN Allowed(slide, KeyOf(r)) ELSE slide
    /\ UNCHANGED <<nodeEnv, redis, isEnabled, traffic, everReset, raced>>
    /\ UNCHANGED <<cacheVars, codecVars, serviceVars>>

\* getRateLimitCount (cache.ts lines 196-209): 0 when disabled or on error.
CountOnError == 0

\* withRateLimit lines 128-152: the handler, then the rate-limit headers.
Handler(r) ==
    /\ req[r].pc = "handler"
    /\ LET k == KeyOf(r)
           config == RateConfig(req[r].ep)
           off == ~isEnabled \/ redis = "null"
       IN \E f \in (IF off THEN {"ok"} ELSE StoreOutcomes \ {"lost"}) :
          LET currentCount == IF off \/ f = "err" THEN CountOnError ELSE rl[k].count
          IN /\ resp' = [ip |-> req[r].ip, ep |-> req[r].ep, status |-> 200,
                         retryAfter |-> 0,
                         remaining |-> Max(0, config.requests - currentCount),
                         ran |-> 1, failed |-> req[r].failed]
             /\ failuresLeft' = IF f = "ok" THEN failuresLeft ELSE failuresLeft - 1
    /\ req' = [req EXCEPT ![r] = IdleReq]
    /\ UNCHANGED <<nodeEnv, redis, isEnabled, rl, traffic, last, began, allowedW, faulted,
                   everReset, slide, raced>>
    /\ UNCHANGED <<cacheVars, codecVars, serviceVars>>

\* The store's clock: every key with an expiry ages; at 0 the key is deleted.
Expired(entry) == entry.ttl > 0 /\ entry.ttl - TickSeconds <= 0

Tick ==
    /\ \E k \in RateKeys : rl[k].ttl > 0
    /\ rl' = [k \in RateKeys |->
                IF rl[k].ttl <= 0 THEN rl[k]
                ELSE IF Expired(rl[k]) THEN Absent
                ELSE [rl[k] EXCEPT !.ttl = @ - TickSeconds]]
    /\ began' = [k \in RateKeys |-> IF Expired(rl[k]) THEN 0 ELSE began[k]]
    /\ allowedW' = [k \in RateKeys |-> IF Expired(rl[k]) THEN 0 ELSE allowedW[k]]
    /\ faulted' = [k \in RateKeys |-> IF Expired(rl[k]) THEN FALSE ELSE faulted[k]]
    /\ req' = [r \in Reqs |->
                IF req[r].pc = "incr" /\ Expired(rl[KeyOf(r)])
                THEN [req[r] EXCEPT !.stale = TRUE] ELSE req[r]]
    /\ everReset' = (everReset \/ \E k \in RateKeys : Expired(rl[k]) /\ rl[k].count > Limit(k))
    /\ slide' = Slid(slide)
    /\ raced' = [k \in RateKeys |-> IF Expired(rl[k]) THEN FALSE ELSE raced[k]]
    /\ UNCHANGED <<nodeEnv, redis, isEnabled, traffic, last, resp, failuresLeft>>
    /\ UNCHANGED <<cacheVars, codecVars, serviceVars>>

\* redis.on('error') (cache.ts lines 28-31)
ConnError ==
    /\ redis = "client" /\ isEnabled
    /\ failuresLeft > 0
    /\ isEnabled' = FALSE
    /\ failuresLeft' = failuresLeft - 1
    /\ UNCHANGED <<nodeEnv, redis, rl, traffic, req, last, resp, began, allowedW, faulted,
                   everReset, slide, raced>>
    /\ UNCHANGED <<cacheVars, codecVars, serviceVars>>

\* redis.on('connect') (cache.ts lines 33-36)
Connect ==
    /\ redis = "client" /\ ~isEnabled
    /\ isEnabled' = TRUE
    /\ UNCHANGED <<nodeEnv, redis, rl, traffic, req, last, resp, began, allowedW, faulted,
                   everReset, slide, failuresLeft,
                   raced>>
    /\ UNCHANGED <<cacheVars, codecVars, serviceVars>>

\* CacheManager.close (cache.ts lines 214-220)
Close ==
    /\ redis = "client"
    /\ failuresLeft > 0
    /\ redis' = "null"
    /\ isEnabled' = FALSE
    /\ failuresLeft' = failuresLeft - 1
    /\ UNCHANGED <<nodeEnv, rl, traffic, req, last, resp, began, allowedW, faulted,
                   everReset, slide,
                   raced>>
    /\ UNCHANGED <<cacheVars, codecVars, serviceVars>>

(***************************************************************************)
(* Text. A JavaScript string is a sequence of one-character strings.       *)
(***************************************************************************)
DecChars == <<"0", "1", "2", "3", "4", "5", "6", "7", "8", "9">>
HexChars == <<"0", "1", "2", "3", "4", "5", "6", "7", "8", "9", "a", "b", "c", "d", "e", "f">>

Range(s) == {s[i] : i \in DOMAIN s}

\* The value of the digit character c in the alphabet of digits (0-based).
DigitValue(digits, c) == (CHOOSE i \in DOMAIN digits : digits[i] = c) - 1

\* Number.prototype.toString(radix) for an integer n >= 0.
RECURSIVE NumberToString(_, _)
NumberToString(n, digits) ==
    IF n < Len(digits) THEN <<digits[n + 1]>>
    ELSE Append(NumberToString(n \div Len(digits), digits), digits[(n % Len(digits)) + 1])

\* The integer a non-empty sequence of digit characters denotes.
RECURSIVE DigitsToNumber(_, _)
DigitsToNumber(s, digits) ==
    IF s = <<>> THEN 0
    ELSE DigitsToNumber(SubSeq(s, 1, Len(s) - 1), digits) * Len(digits)
         + DigitValue(digits, s[Len(s)])

UpperChars == <<"A", "B", "C", "D", "E", "F", "G", "H", "I", "J", "K", "L", "M",
                "N", "O", "P", "Q", "R", "S", "T", "U", "V", "W", "X", "Y", "Z">>
LowerChars == <<"a", "b", "c", "d", "e", "f", "g", "h", "i", "j", "k", "l", "m",
                "n", "o", "p", "q", "r", "s", "t", "u", "v", "w", "x", "y", "z">>

\* The characters of the model in code-point order; a CJK character is written
\* by its code point ("u5c3c").
CodePoints == <<" ">> \o UpperChars \o LowerChars
              \o <<"u4e9a", "u521a", "u5229", "u5c14", "u5c3c", "u65e5", "u679c">>

CharRank(c) == CHOOSE i \in DOMAIN CodePoints : CodePoints[i] = c

\* String.prototype.toLowerCase / toUpperCase
toLowerCase(s) ==
    [i \in DOMAIN s |-> IF s[i] \in Range(UpperChars)
                        THEN LowerChars[DigitValue(UpperChars, s[i]) + 1] ELSE s[i]]
toUpperCase(s) ==
    [i \in DOMAIN s |-> IF s[i] \in Range(LowerChars)
                        THEN UpperChars[DigitValue(LowerChars, s[i]) + 1] ELSE s[i]]

\* String.prototype.trim
RECURSIVE trimStart(_)
trimStart(s) == IF s # <<>> /\ s[1] = " " THEN trimStart(Tail(s)) ELSE s
RECURSIVE trimEnd(_)
trimEnd(s) == IF s # <<>> /\ s[Len(s)] = " " THEN trimEnd(SubSeq(s, 1, Len(s) - 1)) ELSE s
trim(s) == trimEnd(trimStart(s))

\* String.prototype.split(sep) for a non-empty separator: the pieces between
\* the leftmost non-overlapping occurrences of sep; cur is the piece being read.
RECURSIVE SplitFrom(_, _, _)
SplitFrom(s, sep, cur) ==
    IF s = <<>> THEN <<cur>>
    ELSE IF Len(s) >= Len(sep) /\ SubSeq(s, 1, Len(sep)) = sep
         THEN <<cur>> \o SplitFrom(SubSeq(s, Len(sep) + 1, Len(s)), sep, <<>>)
         ELSE SplitFrom(Tail(s), sep, Append(cur, Head(s)))

split(s, sep) == SplitFrom(s, sep, <<>>)

\* Array.prototype.join(sep) on an array of strings.
RECURSIVE join(_, _)
join(parts, sep) ==
    IF parts = <<>> THEN <<>>
    ELSE IF Len(parts) = 1 THEN parts[1]
    ELSE parts[1] \o sep \o join(Tail(parts), sep)

(***************************************************************************)
(* JSON values and texts: null, booleans, non-negative integers, strings   *)
(* without escapes and flat objects with string members.                   *)
(***************************************************************************)
DQ == "\""

JNull == [t |-> "null", n |-> 0, s |-> <<>>, o |-> <<>>]
JBool(b) == [t |-> "bool", n |-> IF b THEN 1 ELSE 0, s |-> <<>>, o |-> <<>>]
JNum(n) == [t |-> "num", n |-> n, s |-> <<>>, o |-> <<>>]
JStr(s) == [t |-> "str", n |-> 0, s |-> s, o |-> <<>>]
JObj(members) == [t |-> "obj", n |-> 0, s |-> <<>>, o |-> members]

Quote(s) == <<DQ>> \o s \o <<DQ>>
IsQuoted(s) ==
    /\ Len(s) >= 2 /\ s[1] = DQ /\ s[Len(s)] = DQ
    /\ DQ \notin Range(SubSeq(s, 2, Len(s) - 1))
Unquote(s) == SubSeq(s, 2, Len(s) - 1)

JSONstringify(v) ==
    CASE v.t = "null" -> <<"n", "u", "l", "l">>
      [] v.t = "bool" -> IF v.n = 1 THEN <<"t", "r", "u", "e">>
                         ELSE <<"f", "a", "l", "s", "e">>
      [] v.t = "num" -> NumberToString(v.n, DecChars)
      [] v.t = "str" -> Quote(v.s)
      [] v.t = "obj" ->
            <<"{">> \o join([i \in DOMAIN v.o |->
                               Quote(v.o[i][1]) \o <<":">> \o Quote(v.o[i][2])], <<",">>)
            \o <<"}">>

\* One "key":"value" member of an object text, or <<>> when it is not one.
ParseMember(m) ==
    LET kv == split(m, <<":">>)
    IN IF Len(kv) = 2 /\ IsQuoted(kv[1]) /\ IsQuoted(kv[2])
       THEN <<Unquote(kv[1]), Unquote(kv[2])>> ELSE <<>>

\* JSON.parse: [ok |-> FALSE] stands for the SyntaxError it throws.
JSONparse(text) ==
    LET bad == [ok |-> FALSE, value |-> JNull]
        good(v) == [ok |-> TRUE, value |-> v]
    IN IF text = <<"n", "u", "l", "l">> THEN good(JNull)
       ELSE IF text = <<"t", "r", "u", "e">> THEN good(JBool(TRUE))
       ELSE IF text = <<"f", "a", "l", "s", "e">> THEN good(JBool(FALSE))
       ELSE IF text # <<>> /\ Range(text) \subseteq Range(DecChars)
                           /\ (Len(text) = 1 \/ text[1] # "0")
            THEN good(JNum(DigitsToNumber(text, DecChars)))
       ELSE IF IsQuoted(text) THEN good(JStr(Unquote(text)))
       ELSE IF Len(text) >= 2 /\ text[1] = "{" /\ text[Len(text)] = "}"
            THEN LET inner == SubSeq(text, 2, Len(text) - 1)
                     ms == IF inner = <<>> THEN <<>>
                           ELSE [i \in DOMAIN split(inner, <<",">>) |->
                                    ParseMember(split(inner, <<",">>)[i])]
                 IN IF \E i \in DOMAIN ms : ms[i] = <<>> THEN bad ELSE good(JObj(ms))
       ELSE bad

(***************************************************************************)
(* CacheManager.get / set and withCache (cache.ts)                         *)
(***************************************************************************)
CACHE_KEYS_COUNTRY == "country"
CACHE_KEYS_GENERATED == "generated"
CACHE_TTL_COUNTRY == 24 * 60 * 60
CACHE_TTL_GENERATED == 5 * 60

\* The withCache call sites of generateIpByCountry, for the query "chn", count 1.
CountryUse == [prefix |-> CACHE_KEYS_COUNTRY, identifier |-> "chn", ttl |-> CACHE_TTL_COUNTRY]
GeneratedUse ==
    [prefix |-> CACHE_KEYS_GENERATED, identifier |-> "chn:1", ttl |-> CACHE_TTL_GENERATED]

CacheUses == {CountryUse, GeneratedUse}

CacheKeysUsed == {getKey(u.prefix, u.identifier) : u \in CacheUses}

\* What a producer returns: the country lookup returns null for an unknown
\* query and a row otherwise; the other values are the falsy ones of JSON.
CountryRow == JObj(<< <<(<<"i", "d">>), (<<"C", "H", "N">>)>> >>)

Payloads == {JNull, JNum(0), JBool(FALSE), JStr(<<>>), CountryRow}

NoEntry == [present |-> FALSE, text |-> <<>>, ttl |-> 0]

\* Redis GET: the text of the key, or nil.
RedisGet(entry) == [nil |-> ~entry.present, text |-> entry.text]

\* Redis SETEX key ttl text.
RedisSetex(ttl, text) == [present |-> TRUE, text |-> text, ttl |-> ttl]

\* A catch block that logs and rethrows.
GetOnError_rethrow == [threw |-> TRUE, value |-> JNull]

\* CacheManager.get's catch block: warn and return null.
GetOnError == [threw |-> FALSE, value |-> JNull]

\* CacheManager.get on the store's entry for the key.
CacheGet(entry) ==
    IF ~isEnabled \/ redis = "null" THEN [threw |-> FALSE, value |-> JNull]
    ELSE IF storeDown THEN GetOnError
    ELSE LET cached == RedisGet(entry)
         IN IF ~cached.nil /\ cached.text # <<>>          \* if (cached)
            THEN IF JSONparse(cached.text).ok
                 THEN [threw |-> FALSE, value |-> JSONparse(cached.text).value]
                 ELSE GetOnError
            ELSE [threw |-> FALSE, value |-> JNull]

\* CacheManager.set: the store's entry for the key afterwards.
CacheSet(entry, data, ttl) ==
    IF ~isEnabled \/ redis = "null" THEN entry
    ELSE IF storeDown THEN entry                           \* caught and logged
    ELSE RedisSetex(ttl, JSONstringify(data))

\* A store command sent now raises an error.
CommandFails == isEnabled /\ redis # "null" /\ storeDown

\* The withCache calls that may be in progress at once.
Callers == {1, 2}

IdleCall == [pc |-> "idle", prefix |-> "", identifier |-> "", ttl |-> 0, hit |-> FALSE,
             storedText |-> <<>>, getErr |-> FALSE, result |-> JNull]

NoCall == [done |-> FALSE, prefix |-> "", identifier |-> "", ttl |-> 0, hit |-> FALSE,
           storedText |-> <<>>, invoked |-> 0, produced |-> JNull, ret |-> JNull,
           threw |-> FALSE, getErr |-> FALSE, setErr |-> FALSE, wrote |-> NoEntry]

\* withCache lines 236-240: cache.get, and the return of a cached value.
WithCacheGet(c) ==
    /\ calls[c].pc = "idle"
    /\ \E u \in workload.uses :
        LET k == getKey(u.prefix, u.identifier)
            g == CacheGet(cstore[k])
            call == [IdleCall EXCEPT !.prefix = u.prefix, !.identifier = u.identifier,
                                     !.ttl = u.ttl, !.hit = cstore[k].present,
                                     !.storedText = cstore[k].text,
                                     !.getErr = CommandFails]
            ended == [NoCall EXCEPT !.done = TRUE, !.prefix = u.prefix,
                                    !.identifier = u.identifier, !.ttl = u.ttl,
                                    !.hit = call.hit, !.storedText = call.storedText,
                                    !.getErr = call.getErr]
        IN IF g.threw
           THEN /\ lastCall' = [ended EXCEPT !.threw = TRUE]
                /\ UNCHANGED calls
           ELSE IF g.value # JNull                          \* cached !== null
           THEN /\ lastCall' = [ended EXCEPT !.ret = g.value]
                /\ UNCHANGED calls
           ELSE /\ calls' = [calls EXCEPT ![c] = [call EXCEPT !.pc = "fetch"]]
                /\ UNCHANGED lastCall
    /\ UNCHANGED <<cstore, storeDown, redis, isEnabled, failuresLeft, workload, keyspace,
                   load,
                   rlOnly, codecVars, serviceVars>>

\* withCache line 243: the producer runs.
WithCacheFetch(c) ==
    /\ calls[c].pc = "fetch"
    /\ \E p \in workload.payloads : calls' = [calls EXCEPT ![c] = [@ EXCEPT !.pc = "set", !.result = p]]
    /\ UNCHANGED <<cstore, storeDown, lastCall, redis, isEnabled, failuresLeft, workload, keyspace,
                   load,
                   rlOnly, codecVars, serviceVars>>

\* withCache lines 244-246: cache.set, and the return of the producer's value.
WithCacheSet(c) ==
    /\ calls[c].pc = "set"
    /\ LET call == calls[c]
           k == getKey(call.prefix, call.identifier)
       IN /\ cstore' = [cstore EXCEPT ![k] = CacheSet(@, call.result, call.ttl)]
          /\ lastCall' = [NoCall EXCEPT !.done = TRUE, !.prefix = call.prefix,
                                        !.identifier = call.identifier, !.ttl = call.ttl,
                                        !.hit = call.hit, !.storedText = call.storedText,
                                        !.invoked = 1, !.produced = call.result,
                                        !.ret = call.result, !.getErr = call.getErr,
                                        !.setErr = CommandFails, !.wrote = cstore'[k]]
    /\ calls' = [calls EXCEPT ![c] = IdleCall]
    /\ UNCHANGED <<storeDown, redis, isEnabled, failuresLeft, workload, keyspace,
                   load,
                   rlOnly, codecVars, serviceVars>>

\* The TTL given to SETEX elapses: the store deletes the entry.
CacheExpire(k) ==
    /\ cstore[k].present
    /\ cstore' = [cstore EXCEPT ![k] = NoEntry]
    /\ UNCHANGED <<storeDown, calls, lastCall, redis, isEnabled, failuresLeft, workload, keyspace,
                   load,
                   rlOnly, codecVars, serviceVars>>

\* The store starts to raise an error on every command, and stops.
StoreFails ==
    /\ ~storeDown
    /\ storeDown' = TRUE
    /\ UNCHANGED <<cstore, calls, lastCall, redis, isEnabled, failuresLeft, workload, keyspace,
                   load,
                   rlOnly, codecVars, serviceVars>>

StoreRecovers ==
    /\ storeDown
    /\ storeDown' = FALSE
    /\ UNCHANGED <<cstore, calls, lastCall, redis, isEnabled, failuresLeft, workload, keyspace,
                   load,
                   rlOnly, codecVars, serviceVars>>

(***************************************************************************)
(* CacheManager.clearPrefix (cache.ts) over the store's keys as texts.     *)
(***************************************************************************)
\* CACHE_KEYS as texts.
CategoryText ==
    [country |-> <<"c", "o", "u", "n", "t", "r", "y">>,
     ipranges |-> <<"i", "p", "r", "a", "n", "g", "e", "s">>,
     generated |-> <<"g", "e", "n", "e", "r", "a", "t", "e", "d">>,
     country_list |-> <<"c", "o", "u", "n", "t", "r", "y", "_", "l", "i", "s", "t">>,
     ratelimit |-> <<"r", "a", "t", "e", "l", "i", "m", "i", "t">>]

Categories == DOMAIN CategoryText

\* getKey on texts: `ipregion:${prefix}:${identifier}`
getKeyText(prefix, identifier) ==
    <<"i", "p", "r", "e", "g", "i", "o", "n", ":">> \o prefix \o <<":">> \o identifier

\* The pattern with `*` as any text, as a prefix: every key that begins with
\* the text before the `*`, whatever follows it.
GlobMatch_prefix(pattern, key) ==
    \E n \in 0..Len(key) :
        /\ n + 1 <= Len(pattern)
        /\ pattern[n + 1] = "*"
        /\ n > 1
        /\ SubSeq(key, 1, n - 1) = SubSeq(pattern, 1, n - 1)

\* redis.keys(pattern): the glob match of Redis, `*` for any text, `?` for
\* any character, every other character for itself.
RECURSIVE GlobMatch(_, _)
GlobMatch(pattern, key) ==
    IF pattern = <<>> THEN key = <<>>
    ELSE IF pattern[1] = "*"
    THEN GlobMatch(Tail(pattern), key) \/ (key # <<>> /\ GlobMatch(pattern, Tail(key)))
    ELSE IF pattern[1] = "?" THEN key # <<>> /\ GlobMatch(Tail(pattern), Tail(key))
    ELSE key # <<>> /\ key[1] = pattern[1] /\ GlobMatch(Tail(pattern), Tail(key))

\* Identifiers the services write under each category: a territory, a text
\* that continues the category's name, a generation, the list, a client and
\* endpoint.
KeyIdentifiers ==
    [country |-> {<<"n", "e">>, <<"_", "l", "i", "s", "t", ":", "n", "e">>},
     ipranges |-> {<<"n", "e">>},
     generated |-> {<<"n", "e", ":", "1">>},
     country_list |-> {<<"a", "l", "l">>, <<":", "n", "e">>},
     ratelimit |-> {<<"2", "0", "3", ".", "0", ".", "1", "1", "3", ".", "7", ":", "g", "e", "n", "e", "r", "a", "t", "e", "-", "i", "p">>}]

KeyValues == {1, 2}

KvIdle == [keys |-> <<>>, cleared |-> "", available |-> FALSE, before |-> <<>>]

\* redis.setex / redis.incr: the key holds the value.
StoreWrite(keys, key, value) ==
    [k \in DOMAIN keys \cup {key} |-> IF k = key THEN value ELSE keys[k]]

\* redis.del(...keys)
StoreDel(keys, gone) == [k \in DOMAIN keys \ gone |-> keys[k]]

\* cache.set (lines 82-94) and incrementRateLimit (lines 172-191) as writers
\* of keys; nothing is written without the client or when the command fails.
KeyWrite ==
    /\ keyspace.cleared = ""
    /\ \E c \in Categories : \E id \in KeyIdentifiers[c], value \in KeyValues :
          keyspace' = IF ~isEnabled \/ redis = "null" \/ storeDown THEN keyspace
                ELSE [keyspace EXCEPT !.keys = StoreWrite(@, getKeyText(CategoryText[c], id), value)]
    /\ UNCHANGED <<cstore, storeDown, calls, lastCall, workload, load, rlVars, codecVars,
                   serviceVars>>

\* clearPrefix (lines 115-130): the keys that match getKey(prefix, '*') are
\* deleted; without the client it returns, and an error of the store is
\* caught and logged.
ClearPrefix ==
    /\ keyspace.cleared = ""
    /\ \E c \in Categories :
          LET pattern == getKeyText(CategoryText[c], <<"*">>)
              keys == {k \in DOMAIN keyspace.keys : GlobMatch(pattern, k)}
              able == isEnabled /\ redis # "null" /\ ~storeDown
          IN keyspace' = [keyspace EXCEPT !.cleared = c, !.available = able, !.before = keyspace.keys,
                              !.keys = IF able /\ keys # {} THEN StoreDel(@, keys) ELSE @]
    /\ UNCHANGED <<cstore, storeDown, calls, lastCall, workload, load, rlVars, codecVars,
                   serviceVars>>

(***************************************************************************)
(* loadGeoIpData (ip-service-json.ts). What a source answers: "valid", a   *)
(* dataset with metadata and an array of countries; "noMetadata" and       *)
(* "notArray", JSON objects of another shape; "null", the JSON null;       *)
(* "error", a failed read, a response that is not ok, or text that is not  *)
(* JSON.                                                                   *)
(***************************************************************************)
Answers == {"valid", "noMetadata", "notArray", "null", "error"}

\* Values the shared cache can hold under the data key; "miss" for no key.
SharedValues == {"miss", "valid", "noMetadata", "notArray"}

MaxLoads == 2   \* calls of loadGeoIpData in one behaviour

OffLoad ==
    [pc |-> "off", env |-> "", local |-> "error", shared |-> "miss", sharedDown |-> FALSE,
     primary |-> "error", backup |-> "error",
     memory |-> [data |-> "null", fresh |-> FALSE], loads |-> 0,
     atStart |-> [memory |-> [data |-> "null", fresh |-> FALSE], shared |-> "miss"],
     data |-> "null", ok |-> FALSE, result |-> "null"]

\* A process that has loaded nothing yet, in a world where each source has
\* its answer.
StartLoad ==
    \E shared \in SharedValues, down \in BOOLEAN, primary \in Answers, backup \in Answers :
        \/ load = [OffLoad EXCEPT !.pc = "idle", !.env = "production", !.shared = shared,
                                  !.sharedDown = down, !.primary = primary,
                                  !.backup = backup]
        \/ \E local \in Answers :
              load = [OffLoad EXCEPT !.pc = "idle", !.env = "development", !.local = local,
                                    !.shared = shared, !.sharedDown = down,
                                    !.primary = primary, !.backup = backup]

\* `return data` after the in-process copy is set to it.
Loaded(l, data) ==
    [l EXCEPT !.pc = "done", !.ok = TRUE, !.result = data, !.loads = @ + 1,
              !.memory = [data |-> data, fresh |-> TRUE]]

\* An error leaves loadGeoIpData.
LoadThrows(l) == [l EXCEPT !.pc = "done", !.ok = FALSE, !.result = "null", !.loads = @ + 1]

\* lines 121-129: the in-process copy is returned while it is fresh; else the
\* local file is next in development and the shared cache otherwise.
LoadGeoIpData ==
    /\ load.pc \in {"idle", "done"} /\ load.loads < MaxLoads
    /\ LET l == [load EXCEPT !.atStart = [memory |-> load.memory, shared |-> load.shared],
                             !.data = "null"]
       IN load' = IF load.memory.data # "null" /\ load.memory.fresh
                  THEN [l EXCEPT !.pc = "done", !.ok = TRUE, !.result = load.memory.data,
                                 !.loads = @ + 1]
                  ELSE [l EXCEPT !.pc = IF load.env = "development" THEN "local" ELSE "cache"]
    /\ UNCHANGED <<cstore, storeDown, calls, lastCall, workload, keyspace, rlVars, codecVars,
                   serviceVars>>

\* lines 130-146: the local file; reading data.metadata.countries for the log
\* throws for null and for an object without metadata, and every error is
\* caught.
LoadLocal ==
    /\ load.pc = "local"
    /\ load' = IF load.local \in {"error", "null", "noMetadata"}
               THEN [load EXCEPT !.pc = "cache"]
               ELSE Loaded(load, load.local)
    /\ UNCHANGED <<cstore, storeDown, calls, lastCall, workload, keyspace, rlVars, codecVars,
                   serviceVars>>

\* lines 148-158: cache.get answers null for a missing key and for an error
\* of the store; any other value is returned.
LoadShared ==
    /\ load.pc = "cache"
    /\ LET cached == IF load.sharedDown \/ load.shared = "miss" THEN "null" ELSE load.shared
       IN load' = IF cached # "null" THEN Loaded(load, cached)
                  ELSE [load EXCEPT !.pc = "primary"]
    /\ UNCHANGED <<cstore, storeDown, calls, lastCall, workload, keyspace, rlVars, codecVars,
                   serviceVars>>

\* lines 165-180: the primary URL; an error goes to the backup.
LoadPrimary ==
    /\ load.pc = "primary"
    /\ load' = IF load.primary = "error" THEN [load EXCEPT !.pc = "backup"]
               ELSE [load EXCEPT !.pc = "validate", !.data = load.primary]
    /\ UNCHANGED <<cstore, storeDown, calls, lastCall, workload, keyspace, rlVars, codecVars,
                   serviceVars>>

\* lines 181-198: the backup URL; an error is thrown on.
LoadBackup ==
    /\ load.pc = "backup"
    /\ load' = IF load.backup = "error" THEN LoadThrows(load)
               ELSE [load EXCEPT !.pc = "validate", !.data = load.backup]
    /\ UNCHANGED <<cstore, storeDown, calls, lastCall, workload, keyspace, rlVars, codecVars,
                   serviceVars>>

\* lines 201-220: the shape test (reading .metadata of null throws as well),
\* then cache.set, which does nothing when the store fails, and the
\* in-process copy.
LoadValidate ==
    /\ load.pc = "validate"
    /\ load' = IF load.data # "valid" THEN LoadThrows(load)
               ELSE Loaded([load EXCEPT !.shared = IF load.sharedDown THEN @ ELSE load.data],
                           load.data)
    /\ UNCHANGED <<cstore, storeDown, calls, lastCall, workload, keyspace, rlVars, codecVars,
                   serviceVars>>

\* memoryCache.ttl (5 minutes) passes.
MemoryAges ==
    /\ load.pc \in {"idle", "done"} /\ load.memory.fresh
    /\ load' = [load EXCEPT !.memory.fresh = FALSE]
    /\ UNCHANGED <<cstore, storeDown, calls, lastCall, workload, keyspace, rlVars, codecVars,
                   serviceVars>>

(***************************************************************************)
(* ip-utils.ts: ipToInt, intToIp. An integer below 2^32 is kept as two     *)
(* 16-bit halves, [hi, lo] for hi * 65536 + lo.                            *)
(***************************************************************************)
Word(hi, lo) == [hi |-> hi + lo \div 65536, lo |-> lo % 65536]
WordTimes256(w) == Word(w.hi * 256, w.lo * 256)
WordPlus(w, n) == Word(w.hi, w.lo + n)

\* 10^e
RECURSIVE PowerOfTen(_)
PowerOfTen(e) == IF e = 0 THEN 1 ELSE 10 * PowerOfTen(e - 1)

\* The value of a numeral without sign: decimal digits, decimal digits with a
\* non-negative exponent ("1e2"), or hexadecimal digits after "0x"; NaN,
\* written -1, for any other text.
UnsignedNumeral(t) ==
    LET marks == {i \in DOMAIN t : t[i] \in {"e", "E"}}
        e == IF marks = {} THEN 0 ELSE CHOOSE i \in marks : \A j \in marks : i <= j
        mantissa == SubSeq(t, 1, e - 1)
        exponent == SubSeq(t, e + 1, Len(t))
    IN IF Range(t) \subseteq Range(DecChars) THEN DigitsToNumber(t, DecChars)
       ELSE IF /\ Len(t) > 2 /\ t[1] = "0" /\ t[2] \in {"x", "X"}
               /\ Range(toLowerCase(SubSeq(t, 3, Len(t)))) \subseteq Range(HexChars)
       THEN DigitsToNumber(toLowerCase(SubSeq(t, 3, Len(t))), HexChars)
       ELSE IF /\ e > 1 /\ e < Len(t)
               /\ Range(mantissa) \subseteq Range(DecChars)
               /\ Range(exponent) \subseteq Range(DecChars)
       THEN DigitsToNumber(mantissa, DecChars) * PowerOfTen(DigitsToNumber(exponent, DecChars))
       ELSE -1

\* Number(text): surrounding white space is ignored, the empty string is 0,
\* a decimal numeral may carry a sign, anything that is no numeral is NaN,
\* written -1 (a negative value and NaN are told apart by no caller).
Number(s) ==
    LET t == trim(s)
    IN IF t = <<>> THEN 0
       ELSE IF t[1] \in {"+", "-"}
       THEN LET u == SubSeq(t, 2, Len(t))
            IN IF u = <<>> \/ ~(Range(u) \subseteq Range(DecChars)) THEN -1
               ELSE IF t[1] = "+" THEN DigitsToNumber(u, DecChars)
               ELSE 0 - DigitsToNumber(u, DecChars)
       ELSE UnsignedNumeral(t)

\* ipToInt: [ok |-> FALSE] stands for Error('Invalid IP address format').
ipToInt(ip) ==
    LET pieces == split(ip, <<".">>)
        parts == [i \in DOMAIN pieces |-> Number(pieces[i])]
    IN IF Len(parts) # 4 \/ \E i \in DOMAIN parts : parts[i] < 0 \/ parts[i] > 255
       THEN [ok |-> FALSE, value |-> Word(0, 0)]
       ELSE [ok |-> TRUE,
             value |-> WordPlus(WordTimes256(WordPlus(WordTimes256(
                           WordPlus(WordTimes256(Word(0, parts[1])), parts[2])),
                           parts[3])), parts[4])]

\* The four octets written least significant first.
intToIp_reversed(int) ==
    join(<<NumberToString(int.lo % 256, DecChars),
           NumberToString((int.lo \div 256) % 256, DecChars),
           NumberToString(int.hi % 256, DecChars),
           NumberToString((int.hi \div 256) % 256, DecChars)>>, <<".">>)

\* intToIp: floor(num / 256^k) % 256 for k = 3, 2, 1, 0, joined by dots.
intToIp(int) ==
    join(<<NumberToString((int.hi \div 256) % 256, DecChars),
           NumberToString(int.hi % 256, DecChars),
           NumberToString((int.lo \div 256) % 256, DecChars),
           NumberToString(int.lo % 256, DecChars)>>, <<".">>)

\* Octet values on both sides of every change in the number of digits and of
\* the top bit, and the same octets as canonical decimal texts.
OctetValues == {0, 9, 10, 99, 100, 128, 255}
OctetTexts ==
    {<<"0">>, <<"9">>, <<"1", "0">>, <<"9", "9">>, <<"1", "0", "0">>,
     <<"1", "2", "8">>, <<"2", "5", "5">>}

OffV4 == [pc |-> "off", dir |-> "none", int0 |-> Word(0, 0), ip0 |-> <<>>,
          int |-> Word(0, 0), ip |-> <<>>, ok |-> TRUE]

\* An integer to convert to text and back, or a canonical text to convert to
\* an integer and back.
StartV4 ==
    \/ \E a, b, c, d \in OctetValues :
          v4 = [OffV4 EXCEPT !.pc = "start", !.dir = "int",
                             !.int0 = Word(a * 256 + b, c * 256 + d),
                             !.int = Word(a * 256 + b, c * 256 + d)]
    \/ \E a, b, c, d \in OctetTexts :
          v4 = [OffV4 EXCEPT !.pc = "start", !.dir = "text",
                             !.ip0 = a \o <<".">> \o b \o <<".">> \o c \o <<".">> \o d,
                             !.ip = a \o <<".">> \o b \o <<".">> \o c \o <<".">> \o d]

\* intToIp applied to the current integer.
IntToIpStep ==
    /\ \/ v4.dir = "int" /\ v4.pc = "start"
       \/ v4.dir = "text" /\ v4.pc = "mid" /\ v4.ok
    /\ v4' = [v4 EXCEPT !.ip = intToIp(v4.int),
                        !.pc = IF v4.pc = "start" THEN "mid" ELSE "done"]
    /\ UNCHANGED <<rlVars, cacheVars, v6, serviceVars>>

\* ipToInt applied to the current text.
IpToIntStep ==
    /\ \/ v4.dir = "text" /\ v4.pc = "start"
       \/ v4.dir = "int" /\ v4.pc = "mid"
    /\ v4' = [v4 EXCEPT !.int = ipToInt(v4.ip).value, !.ok = ipToInt(v4.ip).ok,
                        !.pc = IF v4.pc = "start" THEN "mid" ELSE "done"]
    /\ UNCHANGED <<rlVars, cacheVars, v6, serviceVars>>

\* Segments of a dotted text given to ipToInt on its own: canonical octets,
\* an octet out of range, the empty segment, a padded one, a hexadecimal
\* one, two with an exponent, a signed zero and a word.
ParseSegments ==
    {<<"0">>, <<"2", "5", "5">>, <<"2", "5", "6">>, <<>>, <<" ", "7">>,
     <<"0", "x", "1", "F">>, <<"1", "e", "2">>, <<"1", "e", "3">>,
     <<"-", "0">>, <<"a", "b", "c">>}

ShortSegments == {<<"0">>, <<"2", "5", "5">>, <<>>}

ParseTexts4 ==
    {join(<<a, b, c, d>>, <<".">>) : a, b, c, d \in ParseSegments}
    \cup {join(<<a, b, c>>, <<".">>) : a, b, c \in ShortSegments}
    \cup {join(<<a, b, c, d, e>>, <<".">>) : a, b, c, d, e \in ShortSegments}

StartParse4 ==
    \E t \in ParseTexts4 :
        v4 = [OffV4 EXCEPT !.pc = "start", !.dir = "parse", !.ip0 = t, !.ip = t]

\* ipToInt called on a text from outside.
IpToIntCall ==
    /\ v4.dir = "parse" /\ v4.pc = "start"
    /\ v4' = [v4 EXCEPT !.int = ipToInt(v4.ip).value, !.ok = ipToInt(v4.ip).ok,
                        !.pc = "done"]
    /\ UNCHANGED <<rlVars, cacheVars, v6, serviceVars>>

(***************************************************************************)
(* ipv6ToBigInt, bigIntToIpv6. A BigInt is a sequence of 16-bit limbs,     *)
(* most significant first.                                                 *)
(***************************************************************************)
\* The limb j places from the low end (tmp & 0xffffn after j shifts by 16).
LowLimb(x, j) == IF j < Len(x) THEN x[Len(x) - j] ELSE 0

\* x + n for a small n >= 0.
RECURSIVE BigAdd(_, _)
BigAdd(x, n) ==
    IF n = 0 THEN x
    ELSE IF x = <<>> THEN BigAdd(<<0>>, n)
    ELSE LET sum == x[Len(x)] + n
         IN Append(BigAdd(SubSeq(x, 1, Len(x) - 1), sum \div 65536), sum % 65536)

\* x << 16n
BigShl16(x) == Append(x, 0)

\* The limbs without leading zeros: equal for equal BigInts.
RECURSIVE BigNorm(_)
BigNorm(x) == IF x # <<>> /\ x[1] = 0 THEN BigNorm(Tail(x)) ELSE x

\* parseInt(s, 16): the value of the longest prefix of hex digits, NaN (-1)
\* when there is none.
RECURSIVE HexPrefix(_)
HexPrefix(s) ==
    IF s = <<>> \/ s[1] \notin Range(HexChars) THEN <<>>
    ELSE <<s[1]>> \o HexPrefix(Tail(s))

parseInt16(s) == IF HexPrefix(s) = <<>> THEN -1 ELSE DigitsToNumber(HexPrefix(s), HexChars)

\* array.filter(Boolean) on strings: the non-empty ones.
filterBoolean(parts) == SelectSeq(parts, LAMBDA p : p # <<>>)

\* The loop of ipv6ToBigInt over parts[i..]: value = (value << 16n) + v.
RECURSIVE FoldParts(_, _, _)
FoldParts(parts, i, value) ==
    IF i > Len(parts) THEN [ok |-> TRUE, value |-> value]
    ELSE LET v == parseInt16(IF parts[i] = <<>> THEN <<"0">> ELSE parts[i])
         IN IF v < 0 THEN [ok |-> FALSE, value |-> <<>>]       \* BigInt(NaN) throws
            ELSE FoldParts(parts, i + 1, BigAdd(BigShl16(value), v))

\* for (i = 0; i < Math.max(0, missing); i++) parts.push('0')
RECURSIVE ZeroParts(_)
ZeroParts(missing) == IF missing <= 0 THEN <<>> ELSE << <<"0">> >> \o ZeroParts(missing - 1)

ipv6ToBigInt(ip) ==
    LET pieces == split(ip, <<":", ":">>)
        head == pieces[1]
        tail == IF Len(pieces) >= 2 THEN pieces[2] ELSE <<>>     \* undefined
        headParts == IF head # <<>> THEN filterBoolean(split(head, <<":">>)) ELSE <<>>
        tailParts == IF tail # <<>> THEN filterBoolean(split(tail, <<":">>)) ELSE <<>>
        missing == 8 - (Len(headParts) + Len(tailParts))
        parts == headParts \o ZeroParts(missing) \o tailParts
    IN IF Len(parts) # 8 THEN [ok |-> FALSE, value |-> <<>>]
       ELSE FoldParts(parts, 1, <<>>)

\* The zero-run scan of bigIntToIpv6 from index i (0-based, as in the code).
RECURSIVE ScanRuns(_, _, _)
ScanRuns(parts, i, st) ==
    LET close == IF st.curLen > st.bestLen
                 THEN [st EXCEPT !.bestLen = st.curLen, !.bestStart = st.curStart]
                 ELSE st
    IN IF i >= Len(parts) THEN close
       ELSE IF parts[i + 1] = <<"0">>
            THEN ScanRuns(parts, i + 1,
                          IF st.curStart = -1 THEN [st EXCEPT !.curStart = i, !.curLen = 1]
                          ELSE [st EXCEPT !.curLen = @ + 1])
            ELSE ScanRuns(parts, i + 1, [close EXCEPT !.curStart = -1, !.curLen = 0])

\* text.replace(/^:|:$/g, ''): one colon off each end.
StripEndColons(s) ==
    LET a == IF s # <<>> /\ s[1] = ":" THEN Tail(s) ELSE s
    IN IF a # <<>> /\ a[Len(a)] = ":" THEN SubSeq(a, 1, Len(a) - 1) ELSE a

bigIntToIpv6(x) ==
    LET parts == [i \in 1..8 |-> NumberToString(LowLimb(x, 8 - i), HexChars)]
        best == ScanRuns(parts, 0, [bestStart |-> -1, bestLen |-> 0,
                                    curStart |-> -1, curLen |-> 0])
        before == join(SubSeq(parts, 1, best.bestStart), <<":">>)
        after == join(SubSeq(parts, best.bestStart + best.bestLen + 1, 8), <<":">>)
    IN IF best.bestLen > 1
       THEN StripEndColons(before \o (IF before # <<>> THEN <<":">> ELSE <<>>)
                           \o <<":", ":">>
                           \o (IF after # <<>> THEN <<":">> ELSE <<>>) \o after)
       ELSE join(parts, <<":">>)

\* Every pattern of zero and non-zero hextets, the ends of the documentation
\* range 2001:db8::/112, values with three and four hex digits, and the
\* greatest value.
V6Inputs ==
    [1..8 -> {0, 1}]
    \cup {<<8193, 3512, 0, 0, 0, 0, 0, k>> : k \in {0, 1, 171, 65535}}
    \cup {<<8193, 3512, 0, 0, 1, 0, 0, 1>>, <<8193, 3512, 1, 2, 3, 4, 5, 6>>,
         [i \in 1..8 |-> 65535]}

OffV6 == [pc |-> "off", x |-> <<>>, text |-> <<>>, ok |-> TRUE, back |-> <<>>]

StartV6 == \E x \in V6Inputs : v6 = [OffV6 EXCEPT !.pc = "start", !.x = x]

\* bigIntToIpv6 applied to the integer.
BigIntToIpv6Step ==
    /\ v6.pc = "start"
    /\ v6' = [v6 EXCEPT !.pc = "mid", !.text = bigIntToIpv6(v6.x)]
    /\ UNCHANGED <<rlVars, cacheVars, v4, serviceVars>>

\* ipv6ToBigInt applied to the text.
Ipv6ToBigIntStep ==
    /\ v6.pc = "mid"
    /\ v6' = [v6 EXCEPT !.pc = "done", !.ok = ipv6ToBigInt(v6.text).ok,
                        !.back = ipv6ToBigInt(v6.text).value]
    /\ UNCHANGED <<rlVars, cacheVars, v4, serviceVars>>

\* Hextet texts given to ipv6ToBigInt on its own: in range, above 0xFFFF,
\* hexadecimal only at the front, and not hexadecimal at all.
ParseGroups ==
    {<<"0">>, <<"1">>, <<"f", "f", "f", "f">>, <<"f", "f", "f", "f", "f">>,
     <<"1", "g">>, <<"z", "z">>}

SixOnes == << <<"1">>, <<"1">>, <<"1">>, <<"1">>, <<"1">>, <<"1">> >>

\* One "::", two "::", eight groups in full, nine groups, three groups.
ParseTexts6 ==
    {a \o <<":", ":">> \o b : a, b \in ParseGroups}
    \cup {a \o <<":", ":">> \o b \o <<":", ":">> \o c : a, b, c \in ParseGroups}
    \cup {join(<<a>> \o SixOnes \o <<b>>, <<":">>) : a, b \in ParseGroups}
    \cup {join(<<a, b>> \o SixOnes \o <<c>>, <<":">>) : a, b, c \in {<<"0">>, <<"1">>}}
    \cup {join(<<a, b, c>>, <<":">>) : a, b, c \in {<<"0">>, <<"1">>}}

StartParse6 ==
    \E t \in ParseTexts6 : v6 = [OffV6 EXCEPT !.pc = "parse", !.text = t]

\* ipv6ToBigInt called on a text from outside.
Ipv6ToBigIntCall ==
    /\ v6.pc = "parse"
    /\ v6' = [v6 EXCEPT !.pc = "parsed", !.ok = ipv6ToBigInt(v6.text).ok,
                        !.back = ipv6ToBigInt(v6.text).value]
    /\ UNCHANGED <<rlVars, cacheVars, v4, serviceVars>>

(***************************************************************************)
(* BigInt arithmetic on limb sequences (values >= 0).                      *)
(***************************************************************************)
Front(x) == SubSeq(x, 1, Len(x) - 1)

\* x with leading zero limbs up to n limbs.
RECURSIVE PadLimbs(_, _)
PadLimbs(x, n) == IF Len(x) >= n THEN x ELSE PadLimbs(<<0>> \o x, n)

RECURSIVE LexCmp(_, _)
LexCmp(x, y) ==
    IF x = <<>> THEN 0
    ELSE IF x[1] < y[1] THEN -1
    ELSE IF x[1] > y[1] THEN 1
    ELSE LexCmp(Tail(x), Tail(y))

\* -1, 0, 1 as x < y, x = y, x > y.
BigCmp(x, y) ==
    LET a == BigNorm(x)
        b == BigNorm(y)
    IN IF Len(a) < Len(b) THEN -1
       ELSE IF Len(a) > Len(b) THEN 1
       ELSE LexCmp(a, b)

BigLt(x, y) == BigCmp(x, y) < 0
BigLeq(x, y) == BigCmp(x, y) <= 0

RECURSIVE PlusFrom(_, _, _)
PlusFrom(x, y, carry) ==
    IF x = <<>> THEN (IF carry = 0 THEN <<>> ELSE <<carry>>)
    ELSE LET s == x[Len(x)] + y[Len(y)] + carry
         IN Append(PlusFrom(Front(x), Front(y), s \div 65536), s % 65536)

\* x + y
BigPlus(x, y) ==
    LET n == Max(Len(x), Len(y))
    IN BigNorm(PlusFrom(PadLimbs(x, n), PadLimbs(y, n), 0))

RECURSIVE MinusFrom(_, _, _)
MinusFrom(x, y, borrow) ==
    IF x = <<>> THEN <<>>
    ELSE LET d == x[Len(x)] - y[Len(y)] - borrow
         IN Append(MinusFrom(Front(x), Front(y), IF d < 0 THEN 1 ELSE 0),
                   IF d < 0 THEN d + 65536 ELSE d)

\* x - y for x >= y
BigMinus(x, y) ==
    LET n == Max(Len(x), Len(y))
    IN BigNorm(MinusFrom(PadLimbs(x, n), PadLimbs(y, n), 0))

RECURSIVE TimesFrom(_, _, _)
TimesFrom(x, k, carry) ==
    IF x = <<>> THEN (IF carry = 0 THEN <<>> ELSE <<carry>>)
    ELSE LET p == x[Len(x)] * k + carry
         IN Append(TimesFrom(Front(x), k, p \div 65536), p % 65536)

\* x * k for a small k
BigTimesSmall(x, k) == BigNorm(TimesFrom(x, k, 0))

\* Long division, one bit at a time from the top: the remainder by m of
\* rem * 2^(b+1) + the low b + 1 bits of limb, for rem < m.
RECURSIVE ModLimbBits(_, _, _, _)
ModLimbBits(limb, m, b, rem) ==
    LET bit == (limb \div (2 ^ b)) % 2
        r2 == BigPlus(BigPlus(rem, rem), <<bit>>)
        r == IF BigLeq(m, r2) THEN BigMinus(r2, m) ELSE r2
    IN IF b = 0 \/ Len(r) > Len(m) THEN r ELSE ModLimbBits(limb, m, b - 1, r)

\* The same over the limbs of x from limb i.
RECURSIVE ModLimbs(_, _, _, _)
ModLimbs(x, m, i, rem) ==
    IF i > Len(x) THEN rem
    ELSE LET r == ModLimbBits(x[i], m, 15, rem)
         IN IF Len(r) > Len(m) THEN r ELSE ModLimbs(x, m, i + 1, r)

\* The same for a divisor m of at most 2^30, with the remainder kept as an
\* integer.
RECURSIVE ModSmallBits(_, _, _, _)
ModSmallBits(limb, m, b, rem) ==
    LET r == (2 * rem + ((limb \div (2 ^ b)) % 2)) % m
    IN IF b = 0 \/ r >= m THEN r ELSE ModSmallBits(limb, m, b - 1, r)

RECURSIVE ModSmall(_, _, _)
ModSmall(x, m, rem) ==
    IF x = <<>> \/ rem >= m THEN rem
    ELSE ModSmall(Tail(x), m, ModSmallBits(x[1], m, 15, rem))

\* x % m, m > 0
BigMod(x, m) ==
    LET d == BigNorm(m)
    IN IF BigLt(x, d) THEN BigNorm(x)
       ELSE IF Len(d) = 1 \/ (Len(d) = 2 /\ d[1] < 16384)
            THEN LET r == ModSmall(BigNorm(x), IF Len(d) = 1 THEN d[1]
                                               ELSE d[1] * 65536 + d[2], 0)
                 IN BigNorm(<<r \div 65536, r % 65536>>)
       ELSE ModLimbs(BigNorm(x), d, 1, <<>>)

\* BigInt(text) for a text of decimal digits, four digits at a time.
RECURSIVE BigFromDecimal(_, _)
BigFromDecimal(s, acc) ==
    IF s = <<>> THEN acc
    ELSE LET n == IF Len(s) < 4 THEN Len(s) ELSE 4
             next == BigPlus(BigTimesSmall(acc, 10 ^ n),
                             <<DigitsToNumber(SubSeq(s, 1, n), DecChars)>>)
         IN IF Len(next) = 0 THEN BigFromDecimal(SubSeq(s, n + 1, Len(s)), <<>>)
            ELSE BigFromDecimal(SubSeq(s, n + 1, Len(s)), next)

BigInt(s) == BigNorm(BigFromDecimal(s, <<>>))

(***************************************************************************)
(* ip-utils.ts: generateRandomIpInRange                                    *)
(***************************************************************************)
WordLeq(a, b) == a.hi < b.hi \/ (a.hi = b.hi /\ a.lo <= b.lo)
WordLt(a, b) == a.hi < b.hi \/ (a.hi = b.hi /\ a.lo < b.lo)
WordAdd(a, b) == Word(a.hi + b.hi, a.lo + b.lo)

\* a - b for a >= b
WordMinus(a, b) ==
    IF a.lo >= b.lo THEN [hi |-> a.hi - b.hi, lo |-> a.lo - b.lo]
    ELSE [hi |-> a.hi - b.hi - 1, lo |-> a.lo - b.lo + 65536]

\* Offsets tried for Math.floor(Math.random() * n): the ends of 0 .. n - 1, the
\* offsets that carry into the next octet and into the upper half, and every
\* offset of a short range.
OffsetSamples(n) ==
    {Word(0, k) : k \in {0, 1, 2, 3, 255, 256}} \cup {Word(1, 0), Word(32768, 0)}
    \cup (IF WordLt(Word(0, 0), n) THEN {WordMinus(n, Word(0, 1))} ELSE {})
    \cup (IF WordLt(Word(0, 1), n) THEN {WordMinus(n, Word(0, 2))} ELSE {})

\* Math.floor(Math.random() * n) for an integer 1 <= n <= 2^32: Math.random()
\* is a double in [0, 1), the product is below n and its floor is an integer
\* of 0 .. n - 1.
FloorRandomTimes(n) == {k \in OffsetSamples(n) : WordLt(k, n)}

\* generateRandomIpInRange for the random offset drawn.
generateRandomIpInRange(startIp, endIp, randomOffset) ==
    LET startInt == ipToInt(startIp).value
    IN intToIp(WordAdd(startInt, randomOffset))

\* The offsets generateRandomIpInRange can draw for a range.
RandomOffsets(startIp, endIp) ==
    LET startInt == ipToInt(startIp).value
        endInt == ipToInt(endIp).value
        range == WordMinus(endInt, startInt)
    IN FloorRandomTimes(WordAdd(range, Word(0, 1)))

\* IPv4 ranges as the data holds them, start <= end: one address, a /24, a
\* range whose offsets carry through three octets, and the whole space.
Ranges4 ==
    {[startIp |-> <<"1", "0", "0", ".", "1", "2", "8", ".", "9", ".", "0">>,
      endIp |-> <<"1", "0", "0", ".", "1", "2", "8", ".", "9", ".", "0">>],
     [startIp |-> <<"1", "0", ".", "0", ".", "0", ".", "0">>,
      endIp |-> <<"1", "0", ".", "0", ".", "0", ".", "2", "5", "5">>],
     [startIp |-> <<"9", ".", "2", "5", "5", ".", "2", "5", "5", ".", "2", "5", "4">>,
      endIp |-> <<"1", "0", ".", "0", ".", "1", ".", "9">>],
     [startIp |-> <<"0", ".", "0", ".", "0", ".", "0">>,
      endIp |-> <<"2", "5", "5", ".", "2", "5", "5", ".", "2", "5", "5", ".", "2", "5", "5">>]}

OffSmp4 == [pc |-> "off", startIp |-> <<>>, endIp |-> <<>>, ip |-> <<>>]

StartSmp4 == \E r \in Ranges4 : smp4 = [OffSmp4 EXCEPT !.pc = "start", !.startIp = r.startIp,
                                                        !.endIp = r.endIp]

\* One call of generateRandomIpInRange.
GenerateRandomIpInRangeStep ==
    /\ smp4.pc = "start"
    /\ \E randomOffset \in RandomOffsets(smp4.startIp, smp4.endIp) :
          smp4' = [smp4 EXCEPT !.pc = "done",
                               !.ip = generateRandomIpInRange(smp4.startIp, smp4.endIp,
                                                              randomOffset)]
    /\ UNCHANGED <<rlVars, cacheVars, codecVars, gen6, rsv, api>>

(***************************************************************************)
(* The IPv6 service: randomBigIntInRange, weightedPickRange and the loop   *)
(* of generateIpv6ByCountry.                                               *)
(***************************************************************************)
\* (1n << 128n) - 1n
UINT128_MAX == [i \in 1..8 |-> 65535]

\* line 188: limit = UINT128_MAX - (UINT128_MAX % range)
RejectionLimit(range) == BigMinus(UINT128_MAX, BigMod(UINT128_MAX, range))

\* One pass of randomBigIntInRange's loop for the value r of randomUint128():
\* the value returned, or a rejection and another pass.
randomBigIntInRange(start, end, r) ==
    LET range == BigPlus(BigMinus(end, start), <<1>>)
        limit == RejectionLimit(range)
    IN IF BigLeq(r, limit)
       THEN [accepted |-> TRUE, value |-> BigPlus(start, BigMod(r, range)), range |-> range]
       ELSE [accepted |-> FALSE, value |-> <<>>, range |-> range]

\* Values of randomUint128() tried for a range: the least values, the values
\* around the range's size, around the acceptance bound and the greatest.
RawValues(start, end) ==
    LET range == BigPlus(BigMinus(end, start), <<1>>)
        limit == RejectionLimit(range)
        near == {<<>>, <<1>>, <<2>>, <<171>>, BigMinus(range, <<1>>), range,
                 limit, BigPlus(limit, <<1>>), UINT128_MAX}
    IN {r \in near : BigLeq(r, UINT128_MAX)}

\* weights.reduce((a, b) => a + b, 0n)
RECURSIVE SumWeights(_)
SumWeights(weights) ==
    IF weights = <<>> THEN <<>> ELSE BigPlus(weights[1], SumWeights(Tail(weights)))

\* lines 204-214: the walk over the weights; the index of the range chosen.
RECURSIVE WalkTicket(_, _, _)
WalkTicket(weights, i, ticket) ==
    IF i > Len(weights) THEN Len(weights)
    ELSE IF BigLt(ticket, weights[i]) THEN i
    ELSE WalkTicket(weights, i + 1, BigMinus(ticket, weights[i]))

\* line 201: ranges.map(r => (r.end - r.start + 1n))
RECURSIVE Weights(_)
Weights(ranges) ==
    IF ranges = <<>> THEN <<>>
    ELSE <<BigPlus(BigMinus(ranges[1].end, ranges[1].start), <<1>>)>> \o Weights(Tail(ranges))

\* weightedPickRange for the value r of randomUint128(): an error for an empty
\* list, else a rejection or the index of the range chosen.
weightedPickRange(ranges, r) ==
    IF Len(ranges) = 0
    THEN [threw |-> TRUE, accepted |-> FALSE, index |-> 0, ticket |-> <<>>, range |-> <<>>]
    ELSE LET weights == Weights(ranges)
             total == SumWeights(weights)
             draw == randomBigIntInRange(<<>>, BigMinus(total, <<1>>), r)
         IN [threw |-> FALSE, accepted |-> draw.accepted,
             index |-> IF draw.accepted THEN WalkTicket(weights, 1, draw.value) ELSE 0,
             ticket |-> draw.value, range |-> draw.range]

NO_RANGES_FOR_PICK == "IPv6: no ranges available for weighted pick"

\* line 234: the ranges with their bounds as BigInts.
RECURSIVE Weighted(_)
Weighted(ipv6Ranges) ==
    IF ipv6Ranges = <<>> THEN <<>>
    ELSE <<[start |-> BigInt(ipv6Ranges[1].startIpBigInt),
            end |-> BigInt(ipv6Ranges[1].endIpBigInt),
            raw |-> ipv6Ranges[1]]>> \o Weighted(Tail(ipv6Ranges))

DocNet ==
    [startIp |-> <<"2", "0", "0", "1", ":", "d", "b", "8", ":", ":">>,
     endIp |-> <<"2", "0", "0", "1", ":", "d", "b", "8", ":", ":", "f", "f", "f", "f">>,
     startIpBigInt |-> <<"4", "2", "5", "4", "0", "7", "6", "6", "4", "1", "1", "2", "8", "2", "5", "9", "2", "8", "5", "6", "9", "0", "3", "9", "8", "4", "9", "5", "1", "6", "5", "3", "8", "2", "6", "5", "6", "0">>,
     endIpBigInt |-> <<"4", "2", "5", "4", "0", "7", "6", "6", "4", "1", "1", "2", "8", "2", "5", "9", "2", "8", "5", "6", "9", "0", "3", "9", "8", "4", "9", "5", "1", "6", "5", "3", "8", "9", "2", "0", "9", "5">>]

DocHosts ==
    [startIp |-> <<"2", "0", "0", "1", ":", "d", "b", "8", ":", ":", "1">>,
     endIp |-> <<"2", "0", "0", "1", ":", "d", "b", "8", ":", ":", "3">>,
     startIpBigInt |-> <<"4", "2", "5", "4", "0", "7", "6", "6", "4", "1", "1", "2", "8", "2", "5", "9", "2", "8", "5", "6", "9", "0", "3", "9", "8", "4", "9", "5", "1", "6", "5", "3", "8", "2", "6", "5", "6", "1">>,
     endIpBigInt |-> <<"4", "2", "5", "4", "0", "7", "6", "6", "4", "1", "1", "2", "8", "2", "5", "9", "2", "8", "5", "6", "9", "0", "3", "9", "8", "4", "9", "5", "1", "6", "5", "3", "8", "2", "6", "5", "6", "3">>]

DocOne ==
    [startIp |-> <<"2", "0", "0", "1", ":", "d", "b", "8", ":", "0", ":", "0", ":", "1", ":", ":", "1">>,
     endIp |-> <<"2", "0", "0", "1", ":", "d", "b", "8", ":", "0", ":", "0", ":", "1", ":", ":", "1">>,
     startIpBigInt |-> <<"4", "2", "5", "4", "0", "7", "6", "6", "4", "1", "1", "2", "8", "2", "5", "9", "2", "8", "5", "6", "9", "0", "4", "2", "6", "6", "4", "2", "6", "6", "3", "0", "5", "3", "7", "2", "1", "7">>,
     endIpBigInt |-> <<"4", "2", "5", "4", "0", "7", "6", "6", "4", "1", "1", "2", "8", "2", "5", "9", "2", "8", "5", "6", "9", "0", "4", "2", "6", "6", "4", "2", "6", "6", "3", "0", "5", "3", "7", "2", "1", "7">>]

Everything ==
    [startIp |-> <<":", ":">>,
     endIp |-> <<"f", "f", "f", "f", ":", "f", "f", "f", "f", ":", "f", "f", "f", "f", ":", "f", "f", "f", "f", ":", "f", "f", "f", "f", ":", "f", "f", "f", "f", ":", "f", "f", "f", "f", ":", "f", "f", "f", "f">>,
     startIpBigInt |-> <<"0">>,
     endIpBigInt |-> <<"3", "4", "0", "2", "8", "2", "3", "6", "6", "9", "2", "0", "9", "3", "8", "4", "6", "3", "4", "6", "3", "3", "7", "4", "6", "0", "7", "4", "3", "1", "7", "6", "8", "2", "1", "1", "4", "5", "5">>]

Lowest ==
    [startIp |-> <<":", ":">>,
     endIp |-> <<":", ":", "2">>,
     startIpBigInt |-> <<"0">>,
     endIpBigInt |-> <<"2">>]

\* The range lists of the territories generated for: none, a documentation network,
\* a short range that starts off a hextet boundary, one address, the lowest
\* addresses, the whole space, and lists of several.
RangeLists6 ==
    {<<>>, <<DocNet>>, <<DocHosts>>, <<DocOne>>, <<Lowest>>, <<Everything>>,
     <<DocHosts, DocOne>>, <<DocOne, DocHosts, Lowest>>, <<Everything, DocOne>>}

Counts6 == {1, 2}

NoDraw == [range |-> <<>>, raw |-> <<>>, accepted |-> FALSE]

OffGen6 == [pc |-> "off", entry |-> "", ipv6Ranges |-> <<>>, count |-> 0, picked |-> 0,
            ticket |-> <<>>, value |-> <<>>, generated |-> <<>>, draw |-> NoDraw,
            error |-> ""]

\* A call of generateIpv6ByCountry past the lookup of the territory, or a call
\* of weightedPickRange alone.
StartGen6 ==
    \/ \E rs \in RangeLists6, n \in Counts6 :
          gen6 = [OffGen6 EXCEPT !.pc = "pick", !.entry = "generateIpv6ByCountry",
                                 !.ipv6Ranges = rs, !.count = n]
    \/ \E rs \in RangeLists6 :
          gen6 = [OffGen6 EXCEPT !.pc = "pick", !.entry = "weightedPickRange",
                                 !.ipv6Ranges = rs]

NO_IPV6_RANGES == "No IPv6 ranges for"

\* weightedPickRange, called alone or inside the loop of generateIpv6ByCountry
\* (which refuses an empty list before its loop, line 229), one value of
\* randomUint128() at a time.
PickRange ==
    /\ gen6.pc = "pick"
    /\ IF Len(gen6.ipv6Ranges) = 0
       THEN gen6' = [gen6 EXCEPT
                        !.pc = "threw",
                        !.error = IF gen6.entry = "weightedPickRange"
                                  THEN NO_RANGES_FOR_PICK ELSE NO_IPV6_RANGES]
       ELSE LET weighted == Weighted(gen6.ipv6Ranges)
                total == SumWeights(Weights(weighted))
            IN \E r \in RawValues(<<>>, BigMinus(total, <<1>>)) :
                  LET p == weightedPickRange(weighted, r)
                  IN gen6' = [gen6 EXCEPT
                                 !.pc = IF ~p.accepted THEN "pick"
                                        ELSE IF gen6.entry = "weightedPickRange" THEN "done"
                                        ELSE "value",
                                 !.picked = p.index,
                                 !.ticket = p.ticket,
                                 !.draw = [range |-> p.range, raw |-> r,
                                           accepted |-> p.accepted]]
    /\ UNCHANGED <<rlVars, cacheVars, codecVars, smp4, rsv, api>>

\* lines 236-243: the address drawn in the range picked and the item pushed.
DrawValue ==
    /\ gen6.pc = "value"
    /\ LET picked == gen6.ipv6Ranges[gen6.picked]
           start == BigInt(picked.startIpBigInt)
           end == BigInt(picked.endIpBigInt)
       IN \E r \in RawValues(start, end) :
             LET d == randomBigIntInRange(start, end, r)
                 item == [ip |-> bigIntToIpv6(d.value),
                          ipRange |-> [startIp |-> picked.startIp, endIp |-> picked.endIp]]
                 generated == IF d.accepted THEN Append(gen6.generated, item)
                              ELSE gen6.generated
             IN gen6' = [gen6 EXCEPT
                            !.pc = IF ~d.accepted THEN "value"
                                   ELSE IF Len(generated) < gen6.count THEN "pick"
                                   ELSE "done",
                            !.value = d.value,
                            !.generated = generated,
                            !.draw = [range |-> d.range, raw |-> r, accepted |-> d.accepted]]
    /\ UNCHANGED <<rlVars, cacheVars, codecVars, smp4, rsv, api>>

(***************************************************************************)
(* Territory lookup: findCountry (ip-service-json.ts), the country lookup  *)
(* of generateIpByCountry (ip-service.ts) and of the tRPC router           *)
(* (ipregion.ts).                                                          *)
(***************************************************************************)
\* String.prototype.includes
includes(s, q) == \E i \in 1..(Len(s) - Len(q) + 1) : SubSeq(s, i, i + Len(q) - 1) = q

\* a < b in the order of the code points (SQLite's BINARY collation)
RECURSIVE TextLess(_, _)
TextLess(a, b) ==
    IF b = <<>> THEN FALSE
    ELSE IF a = <<>> THEN TRUE
    ELSE IF a[1] # b[1] THEN CharRank(a[1]) < CharRank(b[1])
    ELSE TextLess(Tail(a), Tail(b))

\* The least index of a sequence that satisfies a test, 0 when none does:
\* Array.prototype.find, and findFirst on the rows in their stored order.
FirstIndex(hits) ==
    IF hits = {} THEN 0 ELSE CHOOSE i \in hits : \A j \in hits : i <= j

\* ip-service-json.ts lines 227-248
findCountry(countries, query) ==
    LET normalizedQuery == trim(toLowerCase(query))
        exact == FirstIndex({i \in DOMAIN countries :
                                \/ toLowerCase(countries[i].id) = normalizedQuery
                                \/ toLowerCase(countries[i].code2) = normalizedQuery
                                \/ toLowerCase(countries[i].nameEn) = normalizedQuery
                                \/ toLowerCase(countries[i].nameZh) = normalizedQuery})
    IN IF exact # 0 THEN exact
       ELSE FirstIndex({i \in DOMAIN countries :
                           \/ includes(toLowerCase(countries[i].nameEn), normalizedQuery)
                           \/ includes(toLowerCase(countries[i].nameZh), normalizedQuery)})

\* Prisma { contains: query } on SQLite: LIKE '%query%', which ignores the
\* case of ASCII letters.
Contains(field, query) == includes(toLowerCase(field), toLowerCase(query))

\* orderBy: [{ nameZh: 'asc' }, { nameEn: 'asc' }]
OrderedBefore(a, b) ==
    \/ TextLess(a.nameZh, b.nameZh)
    \/ a.nameZh = b.nameZh /\ TextLess(a.nameEn, b.nameEn)

\* ip-service.ts lines 44-88: findFirst on the exact conditions, then findFirst
\* on the partial ones in the order given.  Without orderBy the row returned is
\* the first that matches in the table's stored order.
dbFindCountry(countries, query) ==
    LET exact == FirstIndex({i \in DOMAIN countries :
                                \/ countries[i].id = toUpperCase(query)
                                \/ countries[i].code2 = toUpperCase(query)
                                \/ countries[i].nameEn = query
                                \/ countries[i].nameZh = query})
        partial == {i \in DOMAIN countries : \/ Contains(countries[i].nameEn, query)
                                             \/ Contains(countries[i].nameZh, query)}
    IN IF exact # 0 THEN exact
       ELSE IF partial = {} THEN 0
       ELSE CHOOSE i \in partial :
               \A j \in partial \ {i} :
                   \/ OrderedBefore(countries[i], countries[j])
                   \/ (~OrderedBefore(countries[j], countries[i]) /\ i < j)

\* ipregion.ts lines 139-156: one findFirst over the codes and the partial
\* name conditions.
routerFindCountry(countries, query) ==
    FirstIndex({i \in DOMAIN countries :
                   \/ countries[i].id = toUpperCase(query)
                   \/ countries[i].code2 = toUpperCase(query)
                   \/ Contains(countries[i].nameEn, query)
                   \/ Contains(countries[i].nameZh, query)})

\* The territories of the model's datasets: two whose English names are one a
\* prefix of the other, and two of which one carries the other's English name
\* as its nameZh.
Niger ==
    [id |-> <<"N", "E", "R">>, code2 |-> <<"N", "E">>,
     nameEn |-> <<"N", "i", "g", "e", "r">>,
     nameZh |-> <<"u5c3c", "u65e5", "u5c14">>]

Nigeria ==
    [id |-> <<"N", "G", "A">>, code2 |-> <<"N", "G">>,
     nameEn |-> <<"N", "i", "g", "e", "r", "i", "a">>,
     nameZh |-> <<"u5c3c", "u65e5", "u5229", "u4e9a">>]

Congo ==
    [id |-> <<"C", "O", "G">>, code2 |-> <<"C", "G">>,
     nameEn |-> <<"C", "o", "n", "g", "o">>,
     nameZh |-> <<"u521a", "u679c">>]

DRCongo ==
    [id |-> <<"C", "O", "D">>, code2 |-> <<"C", "D">>,
     nameEn |-> <<"D", "R", " ", "C", "o", "n", "g", "o">>,
     nameZh |-> <<"C", "o", "n", "g", "o">>]

Territories == {Niger, Nigeria, Congo, DRCongo}

\* Every stored order of the territories.
Datasets ==
    {d \in [1..Cardinality(Territories) -> Territories] :
        \A i, j \in DOMAIN d : i # j => d[i] # d[j]}

\* Queries: codes and names in several cases, padded with spaces, a fragment
\* of a name, and a name no territory has.
Queries ==
    {<<"N", "E">>,
     <<"n", "e">>,
     <<"N", "E", "R">>,
     <<"N", "i", "g", "e", "r">>,
     <<"n", "i", "g", "e", "r">>,
     <<" ", "N", "i", "g", "e", "r", " ">>,
     <<"N", "i", "g">>,
     <<"c", "o", "n", "g", "o">>,
     <<"C", "o", "n", "g", "o">>,
     <<" ", "c", "d">>,
     <<"A", "t", "l", "a", "n", "t", "i", "s">>}

Resolvers == {"findCountry", "dbFindCountry", "routerFindCountry"}

OffRsv == [pc |-> "off", resolver |-> "", countries |-> <<>>, query |-> <<>>, index |-> 0]

StartRsv ==
    \E d \in Datasets, q \in Queries, f \in Resolvers :
        rsv = [OffRsv EXCEPT !.pc = "start", !.resolver = f, !.countries = d, !.query = q]

\* One lookup by the JSON service.
FindCountry ==
    /\ rsv.pc = "start" /\ rsv.resolver = "findCountry"
    /\ rsv' = [rsv EXCEPT !.pc = "done", !.index = findCountry(rsv.countries, rsv.query)]
    /\ UNCHANGED <<rlVars, cacheVars, codecVars, smp4, gen6, api>>

\* One lookup by the database service.
DbFindCountry ==
    /\ rsv.pc = "start" /\ rsv.resolver = "dbFindCountry"
    /\ rsv' = [rsv EXCEPT !.pc = "done", !.index = dbFindCountry(rsv.countries, rsv.query)]
    /\ UNCHANGED <<rlVars, cacheVars, codecVars, smp4, gen6, api>>

\* One lookup by the tRPC router.
RouterFindCountry ==
    /\ rsv.pc = "start" /\ rsv.resolver = "routerFindCountry"
    /\ rsv' = [rsv EXCEPT !.pc = "done",
                          !.index = routerFindCountry(rsv.countries, rsv.query)]
    /\ UNCHANGED <<rlVars, cacheVars, codecVars, smp4, gen6, api>>

(***************************************************************************)
(* The generation routes: handleGenerateIP over generateIpByCountry of     *)
(* ip-service.ts (database, cached) and handleGenerateIPJson over          *)
(* generateIpByCountry of ip-service-json.ts.                              *)
(***************************************************************************)
\* The ranges stored for a territory, in id order (db.ipRange rows by
\* countryId, country.ipRanges): two for NER, one for NGA and for COD, none
\* for COG.
IpRangesOf(id) ==
    IF id = Niger.id
    THEN <<[startIp |-> <<"4", "1", ".", "7", "8", ".", "1", "1", "8", ".", "0">>,
            endIp |-> <<"4", "1", ".", "7", "8", ".", "1", "1", "8", ".", "1">>],
           [startIp |-> <<"1", "0", "2", ".", "1", "3", "7", ".", "2", "5", "5", ".", "2", "5", "5">>,
            endIp |-> <<"1", "0", "2", ".", "1", "3", "7", ".", "2", "5", "5", ".", "2", "5", "5">>]>>
    ELSE IF id = Nigeria.id
    THEN <<[startIp |-> <<"4", "1", ".", "5", "8", ".", "0", ".", "2", "5", "5">>,
            endIp |-> <<"4", "1", ".", "5", "8", ".", "1", ".", "0">>]>>
    ELSE IF id = DRCongo.id
    THEN <<[startIp |-> <<"4", "1", ".", "7", "7", ".", "2", "2", "0", ".", "7">>,
            endIp |-> <<"4", "1", ".", "7", "7", ".", "2", "2", "0", ".", "7">>]>>
    ELSE <<>>

\* generateIpSchema: count is an integer of 1 .. 10.
ValidCount(count) == count >= 1 /\ count <= 10

\* cache.ts lines 252-254
getCountryCacheKey(query) == trim(toLowerCase(query))

\* cache.ts lines 259-261
getGenerationCacheKey(query, count) ==
    trim(toLowerCase(query)) \o <<":">>
    \o (IF count < 0 THEN <<"-">> \o NumberToString(0 - count, DecChars)
        ELSE NumberToString(count, DecChars))

\* getKey on text: `ipregion:${prefix}:${identifier}`
CacheKeyText(prefix, identifier) == <<"ipregion:" \o prefix \o ":">> \o identifier

\* JSON null, the value cache.get returns for a key that is absent, and what
\* a cached null reads back as.
Null == [null |-> TRUE]

\* withCache line 237-240: the cached value, or null on a miss or with the
\* cache disabled.
CacheRead(store, cacheOn, key) ==
    IF cacheOn /\ key \in DOMAIN store THEN store[key] ELSE Null

\* withCache line 244: the value stored under the key, when the cache is on.
CacheWrite(store, cacheOn, key, value) ==
    IF cacheOn THEN [k \in DOMAIN store \cup {key} |-> IF k = key THEN value ELSE store[k]]
    ELSE store

\* The messages of the errors thrown, with the query as the code places it.
CountryNotFoundDb(query) ==
    <<"Country/region not found: ">> \o query
    \o <<". Please use 3-letter country codes (e.g., CHN, USA, JPN) or country names.">>

NoRangeDataDb(query) ==
    <<"No IP range data available for country/region: ">> \o query
    \o <<". Please import real IP data first.">>

CountryNotFoundJson(query) ==
    <<"Country not found: ">> \o query
    \o <<". Please use country code (CN, CHN) or country name (China, u4e2du56fd).">>

NoRangesJson(country) ==
    <<"No IP ranges available for ">> \o country.nameEn \o <<" (">> \o country.code2 \o <<")">>

\* A failure of the database client or of the data download.
InfrastructureFault == <<"Can't reach database server">>

\* The catch block of the route handlers: every error thrown becomes this.
InternalServerError(message, cause, query, count) ==
    [status |-> 500, error |-> "Internal server error", message |-> message,
     data |-> Null, cause |-> cause, query |-> query, count |-> count]

\* The response to parameters the schema refuses.
InvalidParameters(query, count) ==
    [status |-> 400, error |-> "Invalid parameters",
     message |-> <<"Please check your country and count parameters">>,
     data |-> Null, cause |-> "invalid", query |-> query, count |-> count]

\* The response that carries a generation result.
Success(data, query, count) ==
    [status |-> 200, error |-> "", message |-> <<>>, data |-> data, cause |-> "",
     query |-> query, count |-> count]

NoResponse ==
    [status |-> 0, error |-> "", message |-> <<>>, data |-> Null, cause |-> "",
     query |-> <<>>, count |-> 0]

MaxRequests == 2   \* requests one behaviour sends to a route
MaxDbFaults == 1   \* failures of the database or the download in one behaviour

ApiDatasets == {<<Niger, Nigeria, Congo, DRCongo>>, <<DRCongo, Congo, Nigeria, Niger>>}

\* Queries sent to the routes: a code, a name in two cases, a code with and
\* without a leading space, the code of a territory without ranges, and a
\* name no territory has.
ApiQueries ==
    {<<"N", "E">>,
     <<"N", "i", "g", "e", "r">>,
     <<"n", "i", "g", "e", "r">>,
     <<"C", "D">>,
     <<" ", "c", "d">>,
     <<"C", "G">>,
     <<"A", "t", "l", "a", "n", "t", "i", "s">>}

ApiCounts == {1, 2, 11}

OffApi ==
    [pc |-> "off", service |-> "", cacheOn |-> FALSE, countries |-> <<>>, store |-> <<>>,
     served |-> 0, faultsLeft |-> 0, query |-> <<>>, count |-> 0, country |-> Null,
     total |-> 0, ips |-> <<>>, resp |-> NoResponse, fromCache |-> FALSE]

\* A deployment of one of the routes: the database service with Redis on or
\* off, or the JSON service.
StartApi ==
    \E d \in ApiDatasets, f \in 0..MaxDbFaults :
        \/ \E on \in BOOLEAN :
              api = [OffApi EXCEPT !.pc = "idle", !.service = "db", !.cacheOn = on,
                                   !.countries = d, !.faultsLeft = f]
        \/ api = [OffApi EXCEPT !.pc = "idle", !.service = "json", !.countries = d,
                                !.faultsLeft = f]

\* The request is answered: the response, and the route waits for the next.
Answered(a, response) ==
    [a EXCEPT !.pc = "idle", !.served = @ + 1, !.resp = response, !.country = Null,
              !.total = 0, !.ips = <<>>]

\* The response of the catch block to an error thrown with `message`.
Caught(a, message, cause) ==
    Answered(a, InternalServerError(message, cause, a.query, a.count))

\* handleGenerateIP lines 22-61 and the outer withCache of generateIpByCountry
\* (ip-service.ts lines 28-34): the parameters are validated and the cached
\* result of the generation identifier is returned if there is one.
HandleGenerateIP ==
    /\ api.pc = "idle" /\ api.served < MaxRequests
    /\ \E query \in ApiQueries, count \in ApiCounts :
          LET key == CacheKeyText(CACHE_KEYS_GENERATED, getGenerationCacheKey(query, count))
              cached == CacheRead(api.store, api.cacheOn /\ api.service = "db", key)
              a == [api EXCEPT !.query = query, !.count = count,
                               !.fromCache = ValidCount(count) /\ cached # Null]
          IN api' = IF ~ValidCount(count) THEN Answered(a, InvalidParameters(query, count))
                    ELSE IF cached # Null THEN Answered(a, Success(cached, query, count))
                    ELSE [a EXCEPT !.pc = "resolve"]
    /\ UNCHANGED <<rlVars, cacheVars, codecVars, smp4, gen6, rsv>>

\* Counts given to generateIpByCountry by a caller that is not the route.
EngineCounts == {-1, 0, 1}

\* generateIpByCountry called directly (ip-service.ts lines 24-34,
\* ip-service-json.ts lines 271-273): the input is destructured and the
\* outer withCache of the database service is consulted; no test of count.
GenerateIpByCountry ==
    /\ api.pc = "idle" /\ api.served < MaxRequests
    /\ \E query \in ApiQueries, count \in EngineCounts :
          LET key == CacheKeyText(CACHE_KEYS_GENERATED, getGenerationCacheKey(query, count))
              cached == CacheRead(api.store, api.cacheOn /\ api.service = "db", key)
              a == [api EXCEPT !.query = query, !.count = count, !.fromCache = cached # Null]
          IN api' = IF cached # Null THEN Answered(a, Success(cached, query, count))
                    ELSE [a EXCEPT !.pc = "resolve"]
    /\ UNCHANGED <<rlVars, cacheVars, codecVars, smp4, gen6, rsv>>

\* ip-service.ts lines 36-94: the territory through the inner withCache, and
\* ip-service-json.ts lines 275-279: the territory by findCountry.
ResolveCountry ==
    /\ api.pc = "resolve"
    /\ \E fault \in (IF api.faultsLeft > 0 THEN BOOLEAN ELSE {FALSE}) :
          LET key == CacheKeyText(CACHE_KEYS_COUNTRY, getCountryCacheKey(api.query))
              cached == CacheRead(api.store, api.cacheOn /\ api.service = "db", key)
              index == IF api.service = "db" THEN dbFindCountry(api.countries, api.query)
                       ELSE findCountry(api.countries, api.query)
              found == IF index = 0 THEN Null ELSE api.countries[index]
              country == IF cached # Null THEN cached ELSE found
              store == IF cached # Null THEN api.store
                       ELSE CacheWrite(api.store, api.cacheOn /\ api.service = "db", key, found)
          IN api' = IF fault /\ cached = Null
                    THEN Caught([api EXCEPT !.faultsLeft = @ - 1], InfrastructureFault, "fault")
                    ELSE IF country = Null
                    THEN Caught([api EXCEPT !.store = store],
                                IF api.service = "db" THEN CountryNotFoundDb(api.query)
                                ELSE CountryNotFoundJson(api.query),
                                "not-found")
                    ELSE [api EXCEPT !.pc = "count", !.country = country, !.store = store]
    /\ UNCHANGED <<rlVars, cacheVars, codecVars, smp4, gen6, rsv>>

\* ip-service.ts lines 97-103 and ip-service-json.ts lines 281-283: the number
\* of ranges of the territory; none is an error.
CountRanges ==
    /\ api.pc = "count"
    /\ \E fault \in (IF api.faultsLeft > 0 /\ api.service = "db" THEN BOOLEAN ELSE {FALSE}) :
          LET totalRangesCount == Len(IpRangesOf(api.country.id))
          IN api' = IF fault
                    THEN Caught([api EXCEPT !.faultsLeft = @ - 1], InfrastructureFault, "fault")
                    ELSE IF totalRangesCount = 0
                    THEN Caught(api, IF api.service = "db" THEN NoRangeDataDb(api.query)
                                     ELSE NoRangesJson(api.country), "no-ranges")
                    ELSE [api EXCEPT !.pc = "loop", !.total = totalRangesCount]
    /\ UNCHANGED <<rlVars, cacheVars, codecVars, smp4, gen6, rsv>>

\* One pass of the loop (ip-service.ts lines 119-171, ip-service-json.ts
\* lines 292-317): a range at a random offset of 0 .. total - 1 and an
\* address drawn in it.
GenerateOne ==
    /\ api.pc = "loop" /\ Len(api.ips) < api.count
    /\ \E offset \in 0..(api.total - 1) :
          LET chosen == IpRangesOf(api.country.id)[offset + 1]
          IN \E randomOffset \in RandomOffsets(chosen.startIp, chosen.endIp) :
                api' = [api EXCEPT !.ips = Append(@,
                           [ip |-> generateRandomIpInRange(chosen.startIp, chosen.endIp,
                                                           randomOffset),
                            ipRange |-> [startIp |-> chosen.startIp,
                                         endIp |-> chosen.endIp]])]
    /\ UNCHANGED <<rlVars, cacheVars, codecVars, smp4, gen6, rsv>>

\* ip-service.ts lines 173-187 and ip-service-json.ts lines 319-331: the
\* result, written to the generation cache by the outer withCache, and the
\* response of the handler (lines 64-68).
ReturnResult ==
    /\ api.pc = "loop" /\ Len(api.ips) >= api.count
    /\ LET result == [country |-> api.country, ips |-> api.ips, totalRanges |-> api.total,
                      cached |-> FALSE]
           key == CacheKeyText(CACHE_KEYS_GENERATED,
                               getGenerationCacheKey(api.query, api.count))
           store == CacheWrite(api.store, api.cacheOn /\ api.service = "db", key, result)
       IN api' = Answered([api EXCEPT !.store = store],
                          Success(result, api.query, api.count))
    /\ UNCHANGED <<rlVars, cacheVars, codecVars, smp4, gen6, rsv>>

(***************************************************************************)
(* Specifications                                                          *)
(***************************************************************************)
\* The rate limiter before any request, for the behaviours of the others.
RateLimiterIdle ==
    /\ nodeEnv = "production"
    /\ rl = [k \in RateKeys |-> Absent]
    /\ traffic = {}
    /\ req = [r \in Reqs |-> IdleReq]
    /\ last = NoCheck
    /\ resp = NoResp
    /\ began = [k \in RateKeys |-> 0]
    /\ allowedW = [k \in RateKeys |-> 0]
    /\ faulted = [k \in RateKeys |-> FALSE]
    /\ everReset = FALSE
    /\ slide = SlideOff
    /\ raced = [k \in RateKeys |-> FALSE]

CacheIdle ==
    /\ cstore = [k \in CacheKeysUsed |-> NoEntry]
    /\ storeDown = FALSE
    /\ calls = [c \in Callers |-> IdleCall]
    /\ lastCall = NoCall
    /\ keyspace = KvIdle
    /\ load = OffLoad

NoWorkload == [uses |-> {}, payloads |-> {}]

CodecIdle == v4 = OffV4 /\ v6 = OffV6

ServiceIdle == smp4 = OffSmp4 /\ gen6 = OffGen6 /\ rsv = OffRsv /\ api = OffApi

\* The request tasks and the store's clock.
Next ==
    \/ \E r \in Reqs : Begin(r)
    \/ \E r \in Reqs : AfterIncr(r)
    \/ \E r \in Reqs : Handler(r)
    \/ Tick

\* The same, with the connection events of the Redis client.
NextFail ==
    \/ \E r \in Reqs : Begin(r)
    \/ \E r \in Reqs : AfterIncr(r)
    \/ \E r \in Reqs : Handler(r)
    \/ Tick
    \/ ConnError
    \/ Connect
    \/ Close

\* The store is configured and answers every command.
Init ==
    /\ InitRL
    /\ redis = "client"
    /\ failuresLeft = 0
    /\ CacheIdle /\ CodecIdle /\ ServiceIdle
    /\ workload = NoWorkload

\* The store and the connection may fail, MaxFaults times in a behaviour.
InitFail ==
    /\ InitRL
    /\ nodeEnv = "production"
    /\ traffic = {<<"203.0.113.7", "generate-ip">>}
    /\ failuresLeft = MaxFaults
    /\ CacheIdle /\ CodecIdle /\ ServiceIdle
    /\ workload = NoWorkload

Spec == Init /\ [][Next]_vars

SpecFail == InitFail /\ [][NextFail]_vars

\* One remote client on the generation route, the store answering every
\* command, with the history of allowed requests kept.
InitWindow ==
    /\ nodeEnv = "production"
    /\ redis = "client" /\ isEnabled = TRUE
    /\ rl = [k \in RateKeys |-> Absent]
    /\ traffic = {<<"203.0.113.7", "generate-ip">>}
    /\ req = [r \in Reqs |-> IdleReq]
    /\ last = NoCheck
    /\ resp = NoResp
    /\ began = [k \in RateKeys |-> 0]
    /\ allowedW = [k \in RateKeys |-> 0]
    /\ faulted = [k \in RateKeys |-> FALSE]
    /\ everReset = FALSE
    /\ raced = [k \in RateKeys |-> FALSE]
    /\ slide = SlideOn
    /\ failuresLeft = 0
    /\ CacheIdle /\ CodecIdle /\ ServiceIdle
    /\ workload = NoWorkload

SpecWindow == InitWindow /\ [][Next]_vars

\* Two clients on the generation route, the store answering every command,
\* from the start of their windows to the requests above the limit.
InitFrame ==
    /\ nodeEnv = "production"
    /\ redis = "client" /\ isEnabled = TRUE
    /\ rl = [k \in RateKeys |-> Absent]
    /\ traffic = {<<"127.0.0.1", "generate-ip">>, <<"203.0.113.7", "generate-ip">>}
    /\ req = [r \in Reqs |-> IdleReq]
    /\ last = NoCheck
    /\ resp = NoResp
    /\ began = [k \in RateKeys |-> 0]
    /\ allowedW = [k \in RateKeys |-> 0]
    /\ faulted = [k \in RateKeys |-> FALSE]
    /\ everReset = FALSE
    /\ raced = [k \in RateKeys |-> FALSE]
    /\ slide = SlideOff
    /\ failuresLeft = 0
    /\ CacheIdle /\ CodecIdle /\ ServiceIdle
    /\ workload = NoWorkload

\* The request tasks within one window of the store's clock.
NextFrame ==
    \/ \E r \in Reqs : Begin(r)
    \/ \E r \in Reqs : AfterIncr(r)
    \/ \E r \in Reqs : Handler(r)

SpecFrame == InitFrame /\ [][NextFrame]_vars

\* withCache calls against a store that is configured and answers.
NextCache ==
    \/ \E c \in Callers : WithCacheGet(c)
    \/ \E c \in Callers : WithCacheFetch(c)
    \/ \E c \in Callers : WithCacheSet(c)
    \/ \E k \in CacheKeysUsed : CacheExpire(k)

InitCache ==
    /\ RateLimiterIdle /\ CacheIdle /\ CodecIdle /\ ServiceIdle
    /\ redis = "client" /\ isEnabled = TRUE
    /\ failuresLeft = 0
    /\ workload = [uses |-> CacheUses, payloads |-> Payloads]

SpecCache == InitCache /\ [][NextCache]_vars

\* The same against a store that may raise errors, be disconnected or closed.
NextCacheFail ==
    \/ \E c \in Callers : WithCacheGet(c)
    \/ \E c \in Callers : WithCacheFetch(c)
    \/ \E c \in Callers : WithCacheSet(c)
    \/ \E k \in CacheKeysUsed : CacheExpire(k)
    \/ StoreFails
    \/ StoreRecovers
    \/ ConnError
    \/ Connect
    \/ Close

InitCacheFail ==
    /\ RateLimiterIdle /\ CacheIdle /\ CodecIdle /\ ServiceIdle
    /\ \/ redis = "client" /\ isEnabled = TRUE
       \/ redis = "null" /\ isEnabled = FALSE
    /\ failuresLeft = MaxFaults
    /\ workload = [uses |-> {CountryUse}, payloads |-> {JNull, CountryRow}]

SpecCacheFail == InitCacheFail /\ [][NextCacheFail]_vars

\* Keys written under every category, then one clearPrefix, with a store that
\* may raise errors.
InitClear ==
    /\ RateLimiterIdle /\ CacheIdle /\ CodecIdle /\ ServiceIdle
    /\ redis = "client" /\ isEnabled = TRUE
    /\ failuresLeft = 0
    /\ workload = NoWorkload

NextClear == KeyWrite \/ ClearPrefix \/ StoreFails \/ StoreRecovers

SpecClear == InitClear /\ [][NextClear]_vars

\* Calls of loadGeoIpData in one process.
InitLoad ==
    /\ RateLimiterIdle
    /\ cstore = [k \in CacheKeysUsed |-> NoEntry]
    /\ storeDown = FALSE
    /\ calls = [c \in Callers |-> IdleCall]
    /\ lastCall = NoCall
    /\ keyspace = KvIdle
    /\ CodecIdle /\ ServiceIdle
    /\ redis = "null" /\ isEnabled = FALSE /\ failuresLeft = 0
    /\ workload = NoWorkload
    /\ StartLoad

NextLoad ==
    \/ LoadGeoIpData
    \/ LoadLocal
    \/ LoadShared
    \/ LoadPrimary
    \/ LoadBackup
    \/ LoadValidate
    \/ MemoryAges

SpecLoad == InitLoad /\ [][NextLoad]_vars

\* IPv4 and IPv6 conversions there and back.
InitV4 ==
    /\ RateLimiterIdle /\ CacheIdle /\ ServiceIdle
    /\ redis = "null" /\ isEnabled = FALSE /\ failuresLeft = 0
    /\ workload = NoWorkload
    /\ StartV4 /\ v6 = OffV6

NextV4 == IntToIpStep \/ IpToIntStep

SpecV4 == InitV4 /\ [][NextV4]_vars

InitV6 ==
    /\ RateLimiterIdle /\ CacheIdle /\ ServiceIdle
    /\ redis = "null" /\ isEnabled = FALSE /\ failuresLeft = 0
    /\ workload = NoWorkload
    /\ StartV6 /\ v4 = OffV4

NextV6 == BigIntToIpv6Step \/ Ipv6ToBigIntStep

SpecV6 == InitV6 /\ [][NextV6]_vars

\* The two parsers called on texts from outside.
InitParse ==
    /\ RateLimiterIdle /\ CacheIdle /\ ServiceIdle
    /\ redis = "null" /\ isEnabled = FALSE /\ failuresLeft = 0
    /\ workload = NoWorkload
    /\ \/ StartParse4 /\ v6 = OffV6
       \/ StartParse6 /\ v4 = OffV4

NextParse == IpToIntCall \/ Ipv6ToBigIntCall

SpecParse == InitParse /\ [][NextParse]_vars

\* Calls of generateRandomIpInRange, of weightedPickRange and of the IPv6
\* generation loop.
InitSample ==
    /\ RateLimiterIdle /\ CacheIdle /\ CodecIdle
    /\ redis = "null" /\ isEnabled = FALSE /\ failuresLeft = 0
    /\ workload = NoWorkload
    /\ \/ StartSmp4 /\ gen6 = OffGen6
       \/ StartGen6 /\ smp4 = OffSmp4
    /\ rsv = OffRsv /\ api = OffApi

NextSample == GenerateRandomIpInRangeStep \/ PickRange \/ DrawValue

SpecSample == InitSample /\ [][NextSample]_vars

\* Territory lookups by the three resolvers.
InitResolve ==
    /\ RateLimiterIdle /\ CacheIdle /\ CodecIdle
    /\ redis = "null" /\ isEnabled = FALSE /\ failuresLeft = 0
    /\ workload = NoWorkload
    /\ smp4 = OffSmp4 /\ gen6 = OffGen6 /\ api = OffApi
    /\ StartRsv

NextResolve == FindCountry \/ DbFindCountry \/ RouterFindCountry

SpecResolve == InitResolve /\ [][NextResolve]_vars

\* Requests to the generation routes, one at a time.
InitGenerate ==
    /\ RateLimiterIdle /\ CacheIdle /\ CodecIdle
    /\ redis = "null" /\ isEnabled = FALSE /\ failuresLeft = 0
    /\ workload = NoWorkload
    /\ smp4 = OffSmp4 /\ gen6 = OffGen6 /\ rsv = OffRsv
    /\ StartApi

NextGenerate == HandleGenerateIP \/ ResolveCountry \/ CountRanges \/ GenerateOne \/ ReturnResult

SpecGenerate == InitGenerate /\ [][NextGenerate]_vars

\* The services called by code other than the routes.
NextEngine == GenerateIpByCountry \/ ResolveCountry \/ CountRanges \/ GenerateOne \/ ReturnResult

SpecEngine == InitGenerate /\ [][NextEngine]_vars

(***************************************************************************)
(* Rate limiter: claims C1 - C5                                            *)
(***************************************************************************)
\* The most recent check ran against an answering store in a window no
\* failure has touched.
Tracked == last.out # "none" /\ last.ord > 0 /\ ~last.failed

ThresholdRule ==
    LET L == RateConfig(last.ep).requests
    IN /\ last.ord <= L => last.out = "allow"
       /\ last.ord > L => last.out = "deny" /\ last.retryAfter > 0

\* C1 as stated: for any client key, the first L checks of a window are
\* allowed and every later one is denied with retryAfterSeconds > 0.
C1_ThresholdAnyClient == Tracked => ThresholdRule

\* C1 amended: the same for every client key except a loopback client in
\* development, whose checks are all allowed; the first check after the
\* counter was cleared has ordinal 1 and is allowed.
C1_Threshold ==
    Tracked => IF DevBypass(nodeEnv, last.ip) THEN last.out = "allow" ELSE ThresholdRule

\* A client was denied with Retry-After, its counter expired, and its next
\* check, the first of the new window, is allowed.
C1_Witness ==
    /\ everReset /\ Tracked /\ ~last.bypass
    /\ last.ord = 1 /\ last.out = "allow"
    /\ resp.status = 429 /\ resp.retryAfter > 0

CountRule(k) ==
    /\ rl[k].count = began[k]
    /\ allowedW[k] = Min(began[k], Limit(k))

\* C2 as stated: once the N checks begun in a window are all decided, the
\* counter is N and min(N, L) of them were allowed.
C2_CountsAnyClient ==
    \A k \in RateKeys : (~faulted[k] /\ ~Undecided(k)) => CountRule(k)

\* C2 amended: the same for every client except a loopback client in
\* development, for which nothing is counted and every check is allowed.
C2_Counts ==
    \A k \in RateKeys : (~faulted[k] /\ ~Undecided(k)) =>
        IF DevBypass(nodeEnv, KeyClient(k))
        THEN rl[k].count = 0 /\ allowedW[k] = began[k]
        ELSE CountRule(k)

\* More checks than the limit, some of them begun while another was between
\* its increment and its decision, all decided: counter N, L allowed.
C2_Witness ==
    \E k \in RateKeys :
        /\ raced[k] /\ ~faulted[k] /\ ~Undecided(k)
        /\ ~DevBypass(nodeEnv, KeyClient(k))
        /\ began[k] > Limit(k)
        /\ rl[k].count = began[k]
        /\ allowedW[k] = Limit(k)

\* The first-hit check of some window is between its INCR and its EXPIRE.
FirstHitPending == \E r \in Reqs : req[r].pc = "incr" /\ req[r].cur = 1

\* C3: increment and first-hit expiry are one step, so in every state,
\* whatever store or connection failure led to it, every rate-limit counter
\* that exists has an expiry. Stated here for the states in which no first
\* hit is between its two commands; the statement for all states is stronger.
C3_ExpiryWithCount ==
    \A k \in RateKeys : (rl[k].count >= 1 /\ ~FirstHitPending) => rl[k].ttl > 0

\* C4: a counter in the exceeded state returns to absent when its expiry
\* elapses, so it has one pending (once the first hit's EXPIRE has been tried)
\* and the denied client is allowed again.
C4_ExceededCounterExpires ==
    \A k \in RateKeys : (rl[k].count > Limit(k) /\ ~FirstHitPending) => rl[k].ttl > 0

\* C5: a check that met a disabled, closed or failing store is allowed, the
\* handler runs and the response is the handler's.
C5_FailOpen ==
    /\ last.failed => last.out = "allow"
    /\ \A r \in Reqs : req[r].failed => req[r].pc = "handler"
    /\ resp.failed => resp.status = 200 /\ resp.ran = 1

\* A check whose store command failed was allowed and its handler answered.
C5_Witness ==
    /\ last.failed /\ last.out = "allow"
    /\ resp.failed /\ resp.status = 200 /\ resp.ran = 1
    /\ resp.ip = last.ip /\ failuresLeft < MaxFaults

(***************************************************************************)
(* Cache wrapper: claims C6, C7                                            *)
(***************************************************************************)
\* C6: a withCache call whose cache.get or cache.set met a store error
\* invoked the producer once, returned the producer's value and raised
\* nothing.
C6_CacheFailOpen ==
    (lastCall.done /\ (lastCall.getErr \/ lastCall.setErr)) =>
        /\ ~lastCall.threw
        /\ lastCall.invoked = 1
        /\ lastCall.ret = lastCall.produced

\* A call found the store erroring on its get and on its set while an entry
\* for its key was stored: it returned the value its producer made, not null.
C6_Witness ==
    /\ lastCall.done /\ lastCall.getErr /\ lastCall.setErr /\ lastCall.hit
    /\ ~lastCall.threw /\ lastCall.invoked = 1
    /\ lastCall.ret = lastCall.produced /\ lastCall.ret # JNull

\* C7: a withCache call that found an unexpired entry for its key returned
\* the stored payload without invoking the producer, whatever the payload;
\* any other call invoked the producer once, stored its result under the key
\* with the given TTL and returned it.
C7_CacheAside ==
    lastCall.done =>
        IF lastCall.hit
        THEN /\ lastCall.invoked = 0
             /\ JSONstringify(lastCall.ret) = lastCall.storedText
        ELSE /\ lastCall.invoked = 1
             /\ lastCall.ret = lastCall.produced
             /\ lastCall.wrote = RedisSetex(lastCall.ttl, JSONstringify(lastCall.produced))

(***************************************************************************)
(* Address codecs: claims C8, C9, C10                                      *)
(***************************************************************************)
\* C8: the text bigIntToIpv6 renders for a 128-bit value parses back, with
\* ipv6ToBigInt, to the same value.
C8_RoundTrip6 ==
    v6.pc = "done" => v6.ok /\ BigNorm(v6.back) = BigNorm(v6.x)

\* Hextets a .. a+n-1 of x are n >= 2 consecutive zeros.
ZeroRun(x, a, n) == n >= 2 /\ a + n - 1 <= 8 /\ \A i \in a..(a + n - 1) : x[i] = 0

LongestRun(x) ==
    CHOOSE n \in 2..8 : /\ \E a \in 1..8 : ZeroRun(x, a, n)
                        /\ \A m \in (n + 1)..8 : \A a \in 1..8 : ~ZeroRun(x, a, m)

LeftmostLongest(x) ==
    CHOOSE a \in 1..8 : /\ ZeroRun(x, a, LongestRun(x))
                        /\ \A b \in 1..(a - 1) : ~ZeroRun(x, b, LongestRun(x))

HextetTexts(x, from, to) == [i \in 1..(to - from + 1) |-> NumberToString(x[from + i - 1], HexChars)]

\* The canonical text: lowercase hex hextets joined by single colons, the
\* leftmost longest run of two or more zero hextets replaced by one "::".
CanonicalText(x) ==
    IF \E a \in 1..8, n \in 2..8 : ZeroRun(x, a, n)
    THEN LET a == LeftmostLongest(x)
             n == LongestRun(x)
         IN (IF a = 1 THEN <<>> ELSE join(HextetTexts(x, 1, a - 1), <<":">>))
            \o <<":", ":">>
            \o (IF a + n > 8 THEN <<>> ELSE join(HextetTexts(x, a + n, 8), <<":">>))
    ELSE join(HextetTexts(x, 1, 8), <<":">>)

\* C9: bigIntToIpv6 renders the canonical text: one "::" for the leftmost
\* longest zero run of length >= 2, never three colons in a row, and no "::"
\* without such a run.
C9_Canonical ==
    v6.pc \in {"mid", "done"} =>
        /\ v6.text = CanonicalText(v6.x)
        /\ \A i \in 1..(Len(v6.text) - 2) : SubSeq(v6.text, i, i + 2) # <<":", ":", ":">>

\* C10: an integer below 2^32 rendered by intToIp parses back to itself with
\* ipToInt, and a canonical dotted quad parsed by ipToInt renders back to
\* itself with intToIp.
C10_RoundTrip4 ==
    /\ (v4.pc = "done" /\ v4.dir = "int") => v4.ok /\ v4.int = v4.int0
    /\ (v4.pc \in {"mid", "done"} /\ v4.dir = "text") => v4.ok
    /\ (v4.pc = "done" /\ v4.dir = "text") => v4.ip = v4.ip0

\* An integer with its top bit set went to text and came back unchanged.
C10_Witness ==
    /\ v4.pc = "done" /\ v4.dir = "int"
    /\ v4.int0 = Word(128 * 256 + 9, 100 * 256 + 255)
    /\ v4.ip = <<"1", "2", "8", ".", "9", ".", "1", "0", "0", ".", "2", "5", "5">>
    /\ v4.ok /\ v4.int = v4.int0

(***************************************************************************)
(* Rate limiter: claim C15                                                 *)
(***************************************************************************)
\* The check decided in this step is a Deny, on a counter that carries an
\* expiry in the store.
DenyDecided ==
    /\ last' # last /\ last'.out = "deny"
    /\ rl'[RateKey(last'.ip, last'.ep)].ttl > 0

\* C15: on every Deny the retryAfter of the 429 response (body field and
\* Retry-After header) is the number of seconds left until the counter of
\* the client and endpoint expires in the store.
C15_RetryAfterRemaining ==
    [][DenyDecided =>
          /\ last'.retryAfter = rl'[RateKey(last'.ip, last'.ep)].ttl
          /\ resp'.retryAfter = last'.retryAfter]_vars

(***************************************************************************)
(* Rate limiter: claim C18                                                 *)
(***************************************************************************)
\* The counters of the store that grow in this step.
Incremented == {k \in RateKeys : rl'[k].count > rl[k].count}

\* Task r moves from `from` to `to` in this step.
Moves(r, from, to) == req[r].pc = from /\ req'[r].pc = to

\* A counter grows only in the step that takes one request into its check,
\* it is that request's counter and it grows by one.
OneIncrementPerCheck ==
    \A k \in Incremented :
        /\ rl'[k].count = rl[k].count + 1
        /\ Incremented = {k}
        /\ \E r \in Reqs : /\ Moves(r, "idle", "incr") /\ RateKey(req'[r].ip, req'[r].ep) = k
                            /\ \A q \in Reqs \ {r} : req'[q] = req[q]

\* The steps of one request through withRateLimit. `uncounted` tells whether
\* a request may reach the handler without a check that counted it.
RequestSteps(r, uncounted) ==
    /\ Moves(r, "idle", "incr") => RateKey(req'[r].ip, req'[r].ep) \in Incremented
    /\ Moves(r, "idle", "handler") => uncounted
    /\ Moves(r, "idle", "idle") => req'[r] = req[r]
    /\ Moves(r, "incr", "handler") =>
          /\ last'.out = "allow" /\ Incremented = {} /\ resp' = resp
    /\ Moves(r, "incr", "idle") =>
          /\ last'.out = "deny" /\ Incremented = {}
          /\ resp'.status = 429 /\ resp'.ran = 0
          /\ UNCHANGED <<cacheVars, serviceVars>>
    /\ Moves(r, "handler", "idle") =>
          /\ resp'.status = 200 /\ resp'.ran = 1 /\ Incremented = {}
    /\ ~Moves(r, "handler", "incr")
    /\ Moves(r, "handler", "handler") => req'[r] = req[r]
    /\ resp' # resp => \/ Moves(r, "incr", "idle") \/ Moves(r, "handler", "idle")
                       \/ \E q \in Reqs \ {r} : req'[q] # req[q]

Resolved(query) ==
    IF api.service = "db" THEN dbFindCountry(api.countries, query)
    ELSE findCountry(api.countries, query)

\* The last request was answered by the service, not refused by the schema
\* nor cut short by a failure of the database.
Served == api.resp.status # 0 /\ api.resp.cause \notin {"invalid", "fault"}

\* C14: a request whose query resolves to a territory with at least one range
\* is answered with that territory's record as stored, exactly `count`
\* addresses, and totalRanges equal to the number of ranges stored for it.
C14_GenerationResult ==
    LET index == Resolved(api.resp.query)
    IN (Served /\ index # 0 /\ Len(IpRangesOf(api.countries[index].id)) > 0) =>
          /\ api.resp.status = 200
          /\ api.resp.data.country = api.countries[index]
          /\ Len(api.resp.data.ips) = api.resp.count
          /\ api.resp.data.totalRanges = Len(IpRangesOf(api.countries[index].id))

\* The status and the error field of a response: what tells one class of
\* outcome from another, the message being free text.
OutcomeClass(response) == [status |-> response.status, error |-> response.error]

\* The class of the response to a failure of the infrastructure.
GenericFault == OutcomeClass(InternalServerError(InfrastructureFault, "fault", <<>>, 0))

\* C16: the response to a query that resolves to no territory, or to a
\* territory without ranges, is of a class of its own, not the class of the
\* internal-fault response to an infrastructure error, and the not-found
\* response echoes the query.
C16_NotFoundTyped ==
    api.resp.cause \in {"not-found", "no-ranges"} =>
        /\ OutcomeClass(api.resp) # GenericFault
        /\ api.resp.cause = "not-found" => includes(api.resp.message, api.resp.query)

\* C17: what the cached database service answers for a query is what its
\* lookup gives for that query on the stored data without the cache: not
\* found exactly when the lookup finds nothing, and otherwise the territory
\* the lookup finds.
C17_CacheTransparent ==
    (Served /\ api.service = "db") =>
        LET index == dbFindCountry(api.countries, api.resp.query)
        IN /\ api.resp.cause = "not-found" <=> index = 0
           /\ api.resp.status = 200 => api.resp.data.country = api.countries[index]

(***************************************************************************)
(* Sampling: claims C11, C12, C19                                          *)
(***************************************************************************)
\* The address generateRandomIpInRange returned is an IPv4 address between
\* the ends of the range it was called with.
SampleInBounds4 ==
    smp4.pc = "done" =>
        LET x == ipToInt(smp4.ip)
        IN /\ x.ok
           /\ WordLeq(ipToInt(smp4.startIp).value, x.value)
           /\ WordLeq(x.value, ipToInt(smp4.endIp).value)

\* generateIpv6ByCountry has just drawn the value of an item.
ValueDrawn ==
    /\ gen6.entry = "generateIpv6ByCountry"
    /\ gen6.pc \in {"pick", "done"}
    /\ gen6.draw.accepted

\* The value randomBigIntInRange returned lies between the ends of the range
\* picked.
SampleInBounds6 ==
    ValueDrawn =>
        LET picked == gen6.ipv6Ranges[gen6.picked]
        IN /\ BigLeq(BigInt(picked.startIpBigInt), gen6.value)
           /\ BigLeq(gen6.value, BigInt(picked.endIpBigInt))

\* A text that is an IPv6 address: no run of three colons, and eight hextets
\* once a "::" is expanded.
IsAddress6(text) ==
    /\ Len(split(text, <<":", ":", ":">>)) = 1
    /\ ipv6ToBigInt(text).ok

\* Every item pushed carries an address inside the range reported with it.
ItemsInBounds6 ==
    \A i \in DOMAIN gen6.generated :
        LET item == gen6.generated[i]
        IN /\ IsAddress6(item.ip)
           /\ BigLeq(ipv6ToBigInt(item.ipRange.startIp).value, ipv6ToBigInt(item.ip).value)
           /\ BigLeq(ipv6ToBigInt(item.ip).value, ipv6ToBigInt(item.ipRange.endIp).value)

\* C11: for every random value drawn, the address generateRandomIpInRange
\* returns and the value randomBigIntInRange returns lie between start and
\* end, and the address of every generated item lies within the ipRange
\* reported alongside it.
C11_InBounds == SampleInBounds4 /\ SampleInBounds6 /\ ItemsInBounds6

\* 2^128, the number of values randomUint128() can return.
RawSpace == BigPlus(UINT128_MAX, <<1>>)

\* floor(2^128 / range) * range: the greatest multiple of range within the
\* raw space.
UnbiasedBound(range) == BigMinus(RawSpace, BigMod(RawSpace, range))

\* A raw value has been drawn for a range that fits the raw space.
Drawn == gen6.draw.range # <<>> /\ BigLeq(gen6.draw.range, RawSpace)

\* C12: randomBigIntInRange accepts exactly the raw values below
\* floor(2^128 / range) * range and rejects every other one, so that each
\* result has the same number of accepted raw values.
C12_NoModuloBias ==
    Drawn => (gen6.draw.accepted <=> BigLt(gen6.draw.raw, UnbiasedBound(gen6.draw.range)))

\* The sum of the first n weights: the least ticket of range n + 1.
RECURSIVE TicketsBefore(_, _)
TicketsBefore(weights, n) ==
    IF n = 0 THEN <<>> ELSE BigPlus(TicketsBefore(weights, n - 1), weights[n])

\* weightedPickRange has thrown or has drawn a ticket for the list of gen6.
PickEntered == gen6.pc = "threw" \/ gen6.picked # 0

\* The ticket drawn lies among the tickets of the range chosen: at or after
\* the weights of the ranges before it, and before its own weight ends.
TicketWithinChosen ==
    LET weights == Weights(Weighted(gen6.ipv6Ranges))
    IN (gen6.picked # 0 /\ gen6.draw.accepted) =>
          /\ BigLeq(TicketsBefore(weights, gen6.picked - 1), gen6.ticket)
          /\ BigLt(gen6.ticket, TicketsBefore(weights, gen6.picked))

\* A ticket t below the total is produced by some value of randomUint128()
\* exactly when the value t itself is accepted (a value that reduces to t is
\* at least t, and the values accepted are those up to the limit). Range i
\* is chosen for weight_i tickets when its first and its last ticket are
\* both produced and both choose i.
AllTicketsChoose(ranges, i) ==
    LET weights == Weights(ranges)
        atFirst == weightedPickRange(ranges, TicketsBefore(weights, i - 1))
        atLast == weightedPickRange(ranges, BigMinus(TicketsBefore(weights, i), <<1>>))
    IN /\ atFirst.accepted /\ atFirst.index = i
       /\ atLast.accepted /\ atLast.index = i

\* C19: weightedPickRange fails with its no-ranges error on an empty list;
\* on a non-empty list the ticket drawn selects the range whose tickets
\* contain it, and every range of the list, a single-address one included,
\* is selected for each of its weight_i tickets, whatever the total weight.
C19_WeightedPick ==
    PickEntered =>
       IF Len(gen6.ipv6Ranges) = 0
       THEN (gen6.pc = "threw" /\ gen6.entry = "weightedPickRange")
               => gen6.error = NO_RANGES_FOR_PICK
       ELSE /\ TicketWithinChosen
            /\ \A i \in DOMAIN gen6.ipv6Ranges :
                  AllTicketsChoose(Weighted(gen6.ipv6Ranges), i)

(***************************************************************************)
(* Territory lookup: claims C13, C20                                       *)
(***************************************************************************)
\* The query, lower-cased and trimmed, equals one of the territory's four
\* fields, lower-cased.
MatchesExactly(c, query) ==
    trim(toLowerCase(query)) \in {toLowerCase(c.id), toLowerCase(c.code2),
                                  toLowerCase(c.nameEn), toLowerCase(c.nameZh)}

ExactWins(resolver) ==
    (/\ rsv.pc = "done" /\ rsv.resolver = resolver
     /\ \E i \in DOMAIN rsv.countries : MatchesExactly(rsv.countries[i], rsv.query))
    => /\ rsv.index # 0
       /\ MatchesExactly(rsv.countries[rsv.index], rsv.query)

\* C13: when some territory matches the query exactly on id, code2, nameEn or
\* nameZh, each resolver returns a territory that matches exactly, never one
\* that only contains the query in its name, in every stored order.
C13_ExactWins == \A f \in Resolvers : ExactWins(f)

\* The earliest of the rules id, code2, nameEn, nameZh (1 to 4) under which
\* the territory matches the query exactly; 5 when none does.
RuleOf(c, query) ==
    LET q == trim(toLowerCase(query))
    IN IF toLowerCase(c.id) = q THEN 1
       ELSE IF toLowerCase(c.code2) = q THEN 2
       ELSE IF toLowerCase(c.nameEn) = q THEN 3
       ELSE IF toLowerCase(c.nameZh) = q THEN 4
       ELSE 5

EarliestRuleWins(resolver) ==
    (/\ rsv.pc = "done" /\ rsv.resolver = resolver
     /\ \E i \in DOMAIN rsv.countries : MatchesExactly(rsv.countries[i], rsv.query))
    => /\ rsv.index # 0
       /\ \A i \in DOMAIN rsv.countries :
              RuleOf(rsv.countries[rsv.index], rsv.query) <= RuleOf(rsv.countries[i], rsv.query)

\* C20: when the query matches different territories exactly under different
\* rules, findCountry and the database lookup return the territory matched by
\* the earliest rule in the order id, code2, nameEn, nameZh, in every stored
\* order.
C20_EarliestRule == EarliestRuleWins("findCountry") /\ EarliestRuleWins("dbFindCountry")

(***************************************************************************)
(* Territory lookup: claims C21, C22                                       *)
(***************************************************************************)
\* The names of a territory that contain the query, lower-cased and trimmed.
MatchedNames(c, query) ==
    {n \in {c.nameEn, c.nameZh} : includes(toLowerCase(n), trim(toLowerCase(query)))}

\* The length of the shortest name of the territory that contains the query.
MatchedLength(c, query) ==
    LET lengths == {Len(n) : n \in MatchedNames(c, query)}
    IN CHOOSE l \in lengths : \A k \in lengths : l <= k

\* Candidate a is preferred to candidate b: a shorter matched name, then
\* nameZh ascending, then nameEn ascending.
Preferred(a, b, query) ==
    \/ MatchedLength(a, query) < MatchedLength(b, query)
    \/ /\ MatchedLength(a, query) = MatchedLength(b, query)
       /\ OrderedBefore(a, b)

ShortestWins(resolver) ==
    LET candidates == {i \in DOMAIN rsv.countries :
                          MatchedNames(rsv.countries[i], rsv.query) # {}}
    IN (/\ rsv.pc = "done" /\ rsv.resolver = resolver
        /\ \A i \in DOMAIN rsv.countries : ~MatchesExactly(rsv.countries[i], rsv.query)
        /\ Cardinality(candidates) > 1)
       => /\ rsv.index \in candidates
          /\ \A i \in candidates \ {rsv.index} :
                 Preferred(rsv.countries[rsv.index], rsv.countries[i], rsv.query)

\* C21: when no territory matches exactly and several contain the query in
\* nameEn or nameZh, findCountry and the database lookup return the candidate
\* with the shortest matched name, ties broken by nameZh and then nameEn
\* ascending, in every stored order.
C21_ShortestMatch == ShortestWins("findCountry") /\ ShortestWins("dbFindCountry")

\* The query in lower case, in upper case, and with a space before or after.
Variants(query) ==
    {toLowerCase(query), toUpperCase(query), <<" ">> \o query, query \o <<" ">>}

\* The resolver applied to a query on the stored data.
Lookup(resolver, countries, query) ==
    IF resolver = "findCountry" THEN findCountry(countries, query)
    ELSE IF resolver = "dbFindCountry" THEN dbFindCountry(countries, query)
    ELSE routerFindCountry(countries, query)

SameForVariants(resolver) ==
    (rsv.pc = "done" /\ rsv.resolver = resolver) =>
        \A q \in Variants(rsv.query) : Lookup(resolver, rsv.countries, q) = rsv.index

\* C22: the outcome of a lookup, the territory or not found, is the same for
\* the query in another letter case and for the query with a space added
\* before or after it, on the JSON path and on the database path.
C22_CaseAndPadding == SameForVariants("findCountry") /\ SameForVariants("dbFindCountry")

(***************************************************************************)
(* Address parsers: claims C23, C24                                        *)
(***************************************************************************)
\* A segment that is a plain decimal integer from 0 to 255.
DecimalOctet(seg) ==
    /\ seg # <<>>
    /\ Range(seg) \subseteq Range(DecChars)
    /\ DigitsToNumber(seg, DecChars) <= 255

DottedQuad(t) ==
    /\ Len(split(t, <<".">>)) = 4
    /\ \A i \in 1..4 : DecimalOctet(split(t, <<".">>)[i])

\* C23: ipToInt returns a value only for a text of exactly four dot-separated
\* decimal integer segments, each from 0 to 255; every other text, with an
\* empty segment, a wrong number of segments, an octet out of range or a token
\* that is not a decimal integer, fails and is never coerced to a number.
C23_QuadOnly ==
    v4.dir = "parse" /\ v4.pc = "done" /\ v4.ok => DottedQuad(v4.ip0)

\* The segments of an IPv6 text between its colons, empty ones left out.
Hextets(t) == filterBoolean(split(t, <<":">>))

HexGroup(g) ==
    /\ Range(toLowerCase(g)) \subseteq Range(HexChars)
    /\ Len(g) <= 4

\* How many times "::" occurs in the text.
DoubleColons(t) == Len(split(t, <<":", ":">>)) - 1

\* C24: ipv6ToBigInt fails for every text with more than one "::", with more
\* than 8 hextet groups, or with a hextet that is not hexadecimal or is above
\* 0xFFFF, and every value it returns is below 2^128.
C24_Rejects ==
    v6.pc = "parsed" /\ v6.ok =>
        /\ DoubleColons(v6.text) <= 1
        /\ Len(Hextets(v6.text)) <= 8
        /\ \A i \in DOMAIN Hextets(v6.text) : HexGroup(Hextets(v6.text)[i])
        /\ Len(BigNorm(v6.back)) <= 8

(***************************************************************************)
(* Generation services: claim C25                                          *)
(***************************************************************************)
\* C25: called directly, the generation service answers a count that is not
\* a positive integer with an error: a successful result was asked with a
\* count of at least 1 and holds that many addresses, never an empty or
\* truncated list.
C25_CountRejected ==
    api.resp.status = 200 =>
        api.resp.count >= 1 /\ Len(api.resp.data.ips) = api.resp.count

(***************************************************************************)
(* Cache keys: claim C26                                                   *)
(***************************************************************************)
\* The key belongs to the category: it is getKey(category, identifier) for
\* some identifier.
KeyOfCategory(key, c) ==
    LET head == getKeyText(CategoryText[c], <<>>)
    IN Len(key) >= Len(head) /\ SubSeq(key, 1, Len(head)) = head

\* C26: after clearPrefix(category) with the store available, no key of the
\* category remains, and every key of every other category, the rate-limit
\* counters and the categories whose name begins with the same characters
\* included, is there with the value it had.
C26_ClearFrame ==
    keyspace.cleared # "" /\ keyspace.available =>
        /\ \A k \in DOMAIN keyspace.keys : ~KeyOfCategory(k, keyspace.cleared)
        /\ \A k \in DOMAIN keyspace.before :
              ~KeyOfCategory(k, keyspace.cleared) => k \in DOMAIN keyspace.keys /\ keyspace.keys[k] = keyspace.before[k]

\* The category "country" was cleared while it held keys, one of them with an
\* identifier that continues the name, and the list and a counter were there.
C26_Witness ==
    /\ keyspace.cleared = "country" /\ keyspace.available
    /\ \A id \in KeyIdentifiers["country"] :
          getKeyText(CategoryText["country"], id) \in DOMAIN keyspace.before
    /\ \E k \in DOMAIN keyspace.keys : KeyOfCategory(k, "country_list")
    /\ \E k \in DOMAIN keyspace.keys : KeyOfCategory(k, "ratelimit")

(***************************************************************************)
(* Generation routes: claim C27                                            *)
(***************************************************************************)
\* C27: the `cached` field of a generation result is true when the result
\* came from the generation cache and false when the service produced it for
\* this request.
C27_CachedFlag ==
    api.pc = "idle" /\ api.resp.status = 200 =>
        (api.resp.data.cached <=> api.fromCache)

(***************************************************************************)
(* Rate limiter: claim C28                                                 *)
(***************************************************************************)
\* C28: the window slides: in every interval of one window length (60
\* seconds, two Ticks of the clock), wherever it starts, at most Limit
\* requests of one client to one endpoint are allowed, also when the interval
\* holds a reset of the counter.
C28_SlidingWindow ==
    \A k \in RateKeys : slide.prev[k] + slide.slot[k] <= Limit(k)

(***************************************************************************)
(* Rate limiter: claim C29                                                 *)
(***************************************************************************)
\* Task r takes a step of its check or of its handler.
TaskSteps(r) == req'[r].pc # req[r].pc

\* The client and the endpoint of the request task r is working on.
TaskClient(r) == IF req[r].pc = "idle" THEN req'[r].ip ELSE req[r].ip
TaskEndpoint(r) == IF req[r].pc = "idle" THEN req'[r].ep ELSE req[r].ep

\* The step leaves the counter of every other (client, endpoint) as it was.
OthersUntouched(r) ==
    \A b \in Clients, y \in Endpoints :
        <<b, y>> # <<TaskClient(r), TaskEndpoint(r)>> =>
            rl'[RateKey(b, y)] = rl[RateKey(b, y)]

\* The count the check obtains is the pair's own counter after its increment,
\* and the decision is that count against the limit of the endpoint.
OwnCounterDecides(r) ==
    /\ req[r].pc = "idle" /\ req'[r].pc = "incr" =>
          req'[r].cur = rl[RateKey(TaskClient(r), TaskEndpoint(r))].count + 1
    /\ req[r].pc = "incr" =>
          last'.out = IF req[r].cur > RateConfig(TaskEndpoint(r)).requests
                      THEN "deny" ELSE "allow"

\* C29: a check for (client A, endpoint X) changes only the counter of (A, X):
\* the count and the expiry of every other pair stay as they were, and the
\* decision depends only on the counter of (A, X) and the limit of X.
C29_CheckFrame ==
    [][\A r \in Reqs : TaskSteps(r) => OthersUntouched(r) /\ OwnCounterDecides(r)]_vars

\* One client has been denied while the other has a counter below the limit.
C29_Witness ==
    /\ last.ip = "203.0.113.7" /\ last.out = "deny"
    /\ rl[RateKey("203.0.113.7", "generate-ip")].count > RateConfig("generate-ip").requests
    /\ rl[RateKey("127.0.0.1", "generate-ip")].count \in 1..RateConfig("generate-ip").requests

(***************************************************************************)
(* Data loading: claim C30                                                 *)
(***************************************************************************)
\* A source can supply a dataset of valid shape to the load in progress: the
\* fresh in-process copy, the shared cache, the primary or the backup URL.
CanSupply ==
    \/ load.atStart.memory.fresh /\ load.atStart.memory.data = "valid"
    \/ ~load.sharedDown /\ load.atStart.shared = "valid"
    \/ load.primary = "valid"
    \/ load.backup = "valid"

\* C30: loadGeoIpData returns a dataset of valid shape whenever one of its
\* sources can supply one: an error or a malformed answer of an earlier
\* source does not keep a later source from being tried, a failure of the
\* shared cache is absorbed, and the load fails only when every source fails.
C30_LoadFallsBack ==
    load.pc = "done" /\ CanSupply => load.ok /\ load.result = "valid"

====
